---- MODULE Spec2Model ----
(***************************************************************************)
(* Model of the segmentation engine of frontend/src/App.tsx: the seeded    *)
(* generator, the k-Means core (runOnce), the multi-start optimizer        *)
(* (kmeans), the silhouette proxy, the elbow locator, the k-selection      *)
(* policy and the React handlers (loadCsv, autoCluster) that drive them.   *)
(*                                                                         *)
(* Numbers.  JavaScript numbers are doubles.  32-bit integer operations    *)
(* (Math.imul, ^, |, >>>) are modelled exactly on 32-bit words held as     *)
(* <<hi, lo>> pairs of 16-bit halves.  Feature values                      *)
(* are small integers; a centroid is the exact rational vector num/den     *)
(* (den = 0 stands for NaN) and an inertia is an exact rational <<p, q>>, *)
(* so K-Means is modelled up to floating-point rounding.  Math.sqrt is     *)
(* taken to 1/100 and a silhouette score to 1/1000 (fixed point).          *)
(***************************************************************************)
EXTENDS Integers, Sequences, FiniteSets, TLC

(***************************************************************************)
(* State.  Three groups of variables: the React state of App, one          *)
(* invocation of kmeans taken step by step, and a log of whole             *)
(* invocations.  A specification moves one group and leaves the others.    *)
(***************************************************************************)
VARIABLES
  \* App (App.tsx 155-181, 246); inflight: a fetch of loadCsv is pending
  mat, rows, loading, error, clusterSeed, elbow, clusterLabels, centroids,
  segmentNames, selectedCluster, selectionMethod, silMinGap, computing,
  didLoad, inflight,
  \* history of the handlers: the outcome of the last call of autoCluster and
  \* the number of sweeps started; the seed the caller supplied last (by the
  \* URL or the seed input) and the settings the last sweep was computed with
  lastCall, nSweeps, supplied, used,
  \* Member Profile (App.tsx 158-161); effect: the effect that resets recs is
  \* pending; recsOf: the inputs of the click that produced recs
  memberIndex, topK, minThreshold, recs, effect, recsOf,
  \* the arrays kmeans reads and makes, by reference: heap[r] is the array of
  \* reference r; frame holds the arguments and locals of one call
  heap, frame,
  \* one invocation of kmeans: its arguments, the locals of kmeans and runOnce,
  \* the control point and the value returned
  input, K, maxIter, seed, nInit, t, labels, centers, changed, it, best, pc, out,
  \* history of that invocation: the runs finished so far and the centroids
  \* before the last update step
  runs, before,
  \* whole invocations of kmeans: how many were made, one remembered, the latest
  ncalls, memo, call,
  \* a reduction applied in some order: the items merged so far, in the order
  \* of merging, and the accumulator
  order, acc,
  \* one application of a function of the module: its arguments and its value
  fnArg, fnOut

(***************************************************************************)
(* 32-bit words                                                            *)
(***************************************************************************)
W16 == 2 ^ 16

\* bitwise exclusive or of two n-bit naturals
RECURSIVE XorN(_, _, _)
XorN(a, b, n) ==
  IF n = 0 THEN 0
  ELSE (((a % 2) + (b % 2)) % 2) + (2 * XorN(a \div 2, b \div 2, n - 1))

\* bitwise or of two n-bit naturals
RECURSIVE OrN(_, _, _)
OrN(a, b, n) ==
  IF n = 0 THEN 0
  ELSE (IF (a % 2) = 1 \/ (b % 2) = 1 THEN 1 ELSE 0) + (2 * OrN(a \div 2, b \div 2, n - 1))

\* ToUint32 of an integer that fits the model's integers
ToWord(n) == <<(n \div W16) % W16, n % W16>>

Xor32(u, v) == <<XorN(u[1], v[1], 16), XorN(u[2], v[2], 16)>>

Or32(u, v) == <<OrN(u[1], v[1], 16), OrN(u[2], v[2], 16)>>

Add32(u, v) ==
  LET lo == u[2] + v[2]
  IN  <<(u[1] + v[1] + (lo \div W16)) % W16, lo % W16>>

\* u >>> k for 0 < k < 16
Shr32(u, k) ==
  LET p == 2 ^ k
      q == 2 ^ (16 - k)
  IN  <<u[1] \div p, ((u[1] % p) * q) + (u[2] \div p)>>

\* the low 16 bits of a * b for 16-bit a, b, without leaving 31 bits
MulLow16(a, b) == (((((a \div 256) * b) % 256) * 256) + ((a % 256) * b)) % W16

\* the bits 16..31 of a * b for 16-bit a, b
MulHigh16(a, b) ==
  LET u == (a \div 256) * b
      v == (a % 256) * b
  IN  ((u \div 256) + ((((u % 256) * 256) + v) \div W16)) % W16

\* Math.imul: the low 32 bits of the product
Imul(u, v) ==
  <<(MulHigh16(u[2], v[2]) + MulLow16(u[1], v[2]) + MulLow16(u[2], v[1])) % W16,
    MulLow16(u[2], v[2])>>

(***************************************************************************)
(* Seeded generator (mulberry32).  The closure variable s is the state of  *)
(* a generator; Draw gives the word whose value / 2^32 is the float drawn. *)
(***************************************************************************)
GOLDEN == <<27947, 31221>>  \* 0x6d2b79f5

rngMulberry32(s) == ToWord(s)

RngNext(s) == Add32(s, GOLDEN)

RngDraw(s) ==
  LET t0 == Add32(s, GOLDEN)
      t1 == Imul(Xor32(t0, Shr32(t0, 15)), Or32(t0, <<0, 1>>))
      t2 == Xor32(t1, Add32(t1, Imul(Xor32(t1, Shr32(t1, 7)), Or32(t1, <<0, 61>>))))
  IN  Xor32(t2, Shr32(t2, 14))

\* Math.floor(rnd() * m) for a drawn word u and 0 < m < 2^14
FloorScale(u, m) == ((u[1] * m) + ((u[2] * m) \div W16)) \div W16

(***************************************************************************)
(* Numbers of the engine: extended rationals <<p, q>>.  q > 0 is the       *)
(* number p/q, <<1, 0>> is Infinity and <<0, 0>> is NaN.                   *)
(***************************************************************************)
Infinity == <<1, 0>>

NaN == <<0, 0>>

Abs(n) == IF n < 0 THEN 0 - n ELSE n

RECURSIVE Gcd(_, _)
Gcd(a, b) == IF b = 0 THEN a ELSE Gcd(b, a % b)

Reduce(p, q) == LET g == Gcd(Abs(p), q) IN <<p \div g, q \div g>>

\* a + b of two finite rationals
RatAdd(a, b) == Reduce((a[1] * b[2]) + (b[1] * a[2]), a[2] * b[2])

\* the comparison a < b of JavaScript: false when an operand is NaN
Less(a, b) ==
  IF a = NaN \/ b = NaN \/ a = Infinity THEN FALSE
  ELSE IF b = Infinity THEN TRUE
  ELSE (a[1] * b[2]) < (b[1] * a[2])

(***************************************************************************)
(* Matrices and centroids.  A matrix is a sequence of rows, a row a        *)
(* sequence of integers.  A centroid is [num, den]: the vector num/den in  *)
(* lowest terms; den = 0 is a vector of NaN.  Labels and row indices are   *)
(* 0-based as in the source; sequences are 1-based.                        *)
(***************************************************************************)
\* the tuple <<f[1], ..., f[n]>> of a function on 1..n, its elements evaluated
SeqOf(f, n) == SubSeq(f, 1, n)

RECURSIVE GcdSeq(_, _, _)
GcdSeq(v, d, g) == IF d = 0 \/ g = 1 THEN g ELSE GcdSeq(v, d - 1, Gcd(g, Abs(v[d])))

\* variant: the sums are not divided by the count
SumsKept(sums, count) == [num |-> sums, den |-> 1]

\* the float vector sums / count, as a centroid in lowest terms
MeanOf(sums, count) ==
  IF count = 0 THEN [num |-> SeqOf([d \in 1..Len(sums) |-> 0], Len(sums)), den |-> 0]
  ELSE LET g == GcdSeq(sums, Len(sums), count)
       IN  [num |-> SeqOf([d \in 1..Len(sums) |-> sums[d] \div g], Len(sums)),
            den |-> count \div g]

\* M[i].slice(): a copy of a row as a centroid
RowCopy(row) == [num |-> row, den |-> 1]

RECURSIVE SumSq(_, _, _)
SumSq(a, b, d) ==
  IF d = 0 THEN 0
  ELSE LET dd == (b.den * a[d]) - b.num[d] IN (dd * dd) + SumSq(a, b, d - 1)

\* dist2 (App.tsx 2465-2469): the squared Euclidean distance of a row and a centroid
dist2(a, b) ==
  IF b.den = 0 THEN NaN ELSE Reduce(SumSq(a, b, Len(a)), b.den * b.den)

(***************************************************************************)
(* K-Means core: runOnce (App.tsx 2471-2513)                               *)
(***************************************************************************)
\* variant: one generator shared by all invocations, advanced by each call
StartSeedShared(sd, tt) == Add32(ToWord(sd + ncalls), ToWord(tt * 101))

\* the seed of start tt, sd + tt * 101, as the generator reads it
StartSeed(sd, tt) == Add32(ToWord(sd), ToWord(tt * 101))

\* Fisher-Yates over idx (0-based positions i .. 1), one draw per position
RECURSIVE ShuffleFrom(_, _, _)
ShuffleFrom(idx, i, s) ==
  IF i <= 0 THEN idx
  ELSE LET j == FloorScale(RngDraw(s), i + 1)
           sw == [idx EXCEPT ![i + 1] = idx[j + 1], ![j + 1] = idx[i + 1]]
       IN  ShuffleFrom(sw, i - 1, RngNext(s))

Shuffle(n, s) == ShuffleFrom(SeqOf([i \in 1..n |-> i - 1], n), n - 1, s)

Min(a, b) == IF a < b THEN a ELSE b

\* idx.slice(0, k).map(i => mat[i].slice()): min(k, N) centroids
InitCenters(M, k, s) ==
  LET idx == Shuffle(Len(M), s)
      n == Min(k, Len(M))
  IN  SeqOf([c \in 1..n |-> RowCopy(M[idx[c] + 1])], n)

\* the inner loop of the assign step for one row: the first centroid index
\* (0-based) whose distance is strictly less than that of every earlier one
RECURSIVE Nearest(_, _, _, _, _, _)
Nearest(row, cen, k, c, bst, bestd) ==
  IF c >= k THEN bst
  ELSE LET d == dist2(row, cen[c + 1])
       IN  IF Less(d, bestd) THEN Nearest(row, cen, k, c + 1, c, d)
           ELSE Nearest(row, cen, k, c + 1, bst, bestd)

\* centers[c] is undefined for some c < k: dist2 reads a property of undefined
AssignThrows(M, cen, k) ==
  Len(M) > 0 /\ Len(M[1]) > 0 /\ k > Len(cen)

\* variant: the clusters are numbered from 1
AssignOneBased(M, cen, k) ==
  SeqOf([i \in 1..Len(M) |-> 1 + Nearest(M[i], cen, k, 0, 0, Infinity)], Len(M))

\* the assign step (App.tsx 2487-2494): the new labels
Assign(M, cen, k) ==
  SeqOf([i \in 1..Len(M) |-> Nearest(M[i], cen, k, 0, 0, Infinity)], Len(M))

RECURSIVE ColSum(_, _, _, _, _)
ColSum(M, lab, c, d, i) ==
  IF i = 0 THEN 0
  ELSE (IF lab[i] = c THEN M[i][d] ELSE 0) + ColSum(M, lab, c, d, i - 1)

RECURSIVE Count(_, _, _)
Count(lab, c, i) ==
  IF i = 0 THEN 0 ELSE (IF lab[i] = c THEN 1 ELSE 0) + Count(lab, c, i - 1)

\* sums[l] is undefined for a label l >= k: sums[l][d] reads a property of undefined
UpdateThrows(M, lab, k) ==
  \E i \in 1..Len(M) : lab[i] >= k /\ Len(M[i]) > 0

\* variant: the mean sums / counts is taken of an empty cluster as well
EmptyMean(old, dim) == MeanOf(SeqOf([d \in 1..dim |-> 0], dim), 0)

\* what the update step leaves in centers[c] when counts[c] is 0: the loop
\* continues and the centroid keeps its value (App.tsx 2505)
EmptyCluster(old, dim) == old

\* the update step (App.tsx 2495-2508): the new centroids
Update(M, lab, cen, k) ==
  LET n == Len(M)
      dim == Len(M[1])
  IN  SeqOf([c \in 1..k |->
               LET cnt == Count(lab, c - 1, n)
               IN  IF cnt = 0 THEN EmptyCluster(cen[c], dim)
                   ELSE MeanOf(SeqOf([d \in 1..dim |-> ColSum(M, lab, c - 1, d, n)], dim),
                               cnt)], k)

RECURSIVE InertiaFrom(_, _, _, _)
InertiaFrom(M, lab, cen, i) ==
  IF i = 0 THEN <<0, 1>>
  ELSE LET d == dist2(M[i], cen[lab[i] + 1])
           r == InertiaFrom(M, lab, cen, i - 1)
       IN  IF d = NaN \/ r = NaN THEN NaN ELSE RatAdd(r, d)

\* the state of a run at the head of its while loop (App.tsx 2473-2482)
RunStart(M, k, s) ==
  [labels |-> SeqOf([i \in 1..Len(M) |-> 0], Len(M)),
   centers |-> InitCenters(M, k, s), changed |-> TRUE, it |-> 0]

\* the run after the assign step of one iteration
AfterAssign(M, k, st) ==
  LET lab == Assign(M, st.centers, k)
  IN  [labels |-> lab, centers |-> st.centers,
       changed |-> lab # st.labels, it |-> st.it + 1]

\* the run after the update step that follows
AfterUpdate(M, k, st) ==
  [st EXCEPT !.centers = Update(M, st.labels, st.centers, k)]

Thrown == [thrown |-> TRUE]

\* centers[labels[i]] is undefined in the inertia loop
FinishThrows(M, st) ==
  \E i \in 1..Len(M) : st.labels[i] >= Len(st.centers) /\ Len(M[i]) > 0

\* the return statement of runOnce (App.tsx 2510-2512)
Finish(M, st) ==
  IF FinishThrows(M, st) THEN Thrown
  ELSE [thrown |-> FALSE, labels |-> st.labels, centers |-> st.centers,
        inertia |-> InertiaFrom(M, st.labels, st.centers, Len(M))]

\* the while loop (App.tsx 2483-2509)
RECURSIVE RunLoop(_, _, _, _)
RunLoop(M, k, mi, st) ==
  IF st.changed /\ st.it < mi
  THEN IF AssignThrows(M, st.centers, k) THEN Thrown
       ELSE LET sa == AfterAssign(M, k, st)
            IN  IF UpdateThrows(M, sa.labels, k) THEN Thrown
                ELSE RunLoop(M, k, mi, AfterUpdate(M, k, sa))
  ELSE Finish(M, st)

runOnce(M, k, mi, s) == RunLoop(M, k, mi, RunStart(M, k, s))

(***************************************************************************)
(* Multi-start optimizer: kmeans (App.tsx 2450-2522)                       *)
(***************************************************************************)
\* variant: trial.inertia <= best.inertia
BetterOrEqual(trial, bst) == ~Less(bst.inertia, trial.inertia)

\* trial.inertia < best.inertia (App.tsx 2519)
Better(trial, bst) == Less(trial.inertia, bst.inertia)

\* the reduction of the multi-start loop: the run kept after a trial
Keep(trial, bst) == IF Better(trial, bst) THEN trial ELSE bst

RECURSIVE Starts(_, _, _, _, _, _, _)
Starts(M, k, mi, sd, ni, tt, bst) ==
  IF tt >= ni THEN bst
  ELSE LET trial == runOnce(M, k, mi, StartSeed(sd, tt))
       IN  IF trial.thrown THEN Thrown
           ELSE Starts(M, k, mi, sd, ni, tt + 1, Keep(trial, bst))

\* the object kmeans returns
Result(bst) ==
  [thrown |-> FALSE, labels |-> bst.labels, centroids |-> bst.centers,
   inertia |-> bst.inertia]

kmeans(M, k, mi, sd, ni) ==
  IF Len(M) = 0 THEN Thrown
  ELSE LET first == runOnce(M, k, mi, StartSeed(sd, 0))
       IN  IF first.thrown THEN Thrown
           ELSE LET bst == Starts(M, k, mi, sd, ni, 1, first)
                IN  IF bst.thrown THEN Thrown ELSE Result(bst)

(***************************************************************************)
(* More arithmetic on extended rationals, and fixed-point square roots     *)
(***************************************************************************)
RatSub(a, b) == Reduce((a[1] * b[2]) - (b[1] * a[2]), a[2] * b[2])

RatScale(n, a) == Reduce(n * a[1], a[2])

RatAbs(a) == <<Abs(a[1]), a[2]>>

\* a >= b of JavaScript, for numbers that may be NaN
Geq(a, b) ==
  IF a = NaN \/ b = NaN THEN FALSE ELSE (a[1] * b[2]) >= (b[1] * a[2])

\* the largest r in lo..hi with r * r <= n
RECURSIVE SqrtIn(_, _, _)
SqrtIn(n, lo, hi) ==
  IF lo >= hi THEN lo
  ELSE LET mid == (lo + hi + 1) \div 2
       IN  IF (mid * mid) <= n THEN SqrtIn(n, mid, hi) ELSE SqrtIn(n, lo, mid - 1)

\* Math.floor(Math.sqrt(n)) for 0 <= n < 2^31
FloorSqrt(n) == SqrtIn(n, 0, Min(n, 46340))

(***************************************************************************)
(* Silhouette approximator: silhouetteApprox (App.tsx 2415-2437).          *)
(* A distance is an integer number of hundredths, Infinity being -1.       *)
(***************************************************************************)
\* dist (App.tsx 2419-2421): Math.sqrt of the squared distance, in hundredths
dist(a, b) == FloorSqrt(SumSq(a, b, Len(a)) * 10000) \div b.den

\* the loop over the other centroids (App.tsx 2427-2432)
RECURSIVE NearestOther(_, _, _, _, _)
NearestOther(row, cen, own, c, b) ==
  IF c >= Len(cen) THEN b
  ELSE IF c = own THEN NearestOther(row, cen, own, c + 1, b)
  ELSE LET d == dist(row, cen[c + 1])
       IN  NearestOther(row, cen, own, c + 1, IF b = -1 \/ d < b THEN d ELSE b)

\* a floor of 1 under b
FloorOne(b) == IF b < 100 THEN 100 ELSE b

\* b || 1: the denominator floor applies when b is 0 (App.tsx 2433)
OrOne(b) == IF b = 0 THEN 100 ELSE b

Max(a, b) == IF a > b THEN a ELSE b

\* a cell of the file that is not a number: Number(v) is NaN (App.tsx 69)
NaNCell == -1

HasNaN(row) == \E d \in 1..Len(row) : row[d] = NaNCell

\* the score of one row in thousandths, or NaN: Infinity / Infinity when
\* there is no other centroid, and a and s are NaN when a cell of the row is
RowScore(row, own, cen) ==
  IF HasNaN(row) THEN NaN
  ELSE LET a == dist(row, cen[own + 1])
           b == NearestOther(row, cen, own, 0, -1)
       IN  IF b = -1 THEN NaN
           ELSE <<((b - a) * 1000) \div Max(a, OrOne(b)), 1000>>

RECURSIVE ScoreSum(_, _, _, _)
ScoreSum(M, lab, cen, i) ==
  IF i = 0 THEN <<0, 1000>>
  ELSE LET r == ScoreSum(M, lab, cen, i - 1)
           sc == RowScore(M[i], lab[i], cen)
       IN  IF r = NaN \/ sc = NaN THEN NaN ELSE <<r[1] + sc[1], 1000>>

silhouetteApprox(M, lab, cen) ==
  IF Len(M) = 0 THEN <<0, 1000>>
  ELSE LET sum == ScoreSum(M, lab, cen, Len(M))
       IN  IF sum = NaN THEN NaN ELSE <<sum[1] \div Len(M), 1000>>

(***************************************************************************)
(* Elbow locator: suggestElbow (App.tsx 2525-2540)                         *)
(***************************************************************************)
\* num of point i: |dy*x0 - dx*y0 + x2*y1 - y2*x1|.  den = sqrt(dx*dx + dy*dy) || 1
\* is the same positive number for every i, so d = num / den is compared by num.
\* An inertia is a finite number or NaN; NaN in y0, y1 or y2 makes d NaN.
ElbowNum(ks, inr, i) ==
  LET n == Len(ks)
      dx == ks[n] - ks[1]
  IN  IF inr[1] = NaN \/ inr[n] = NaN \/ inr[i] = NaN THEN NaN
      ELSE RatAbs(RatAdd(RatSub(RatScale(ks[i], RatSub(inr[n], inr[1])),
                                RatScale(dx, inr[i])),
                         RatSub(RatScale(ks[n], inr[1]), RatScale(ks[1], inr[n]))))

\* the loop over the interior points: bestD starts at -Infinity
RECURSIVE ElbowFrom(_, _, _, _, _)
ElbowFrom(ks, inr, i, bestK, bestD) ==
  IF i > Len(ks) - 1 THEN bestK
  ELSE LET d == ElbowNum(ks, inr, i)
       IN  IF (bestD = <<-1, 0>> /\ d # NaN) \/ Less(bestD, d)
           THEN ElbowFrom(ks, inr, i + 1, ks[i], d)
           ELSE ElbowFrom(ks, inr, i + 1, bestK, bestD)

suggestElbow(ks, inr) ==
  IF Len(ks) # Len(inr) \/ Len(ks) < 3 THEN ks[(Len(ks) \div 2) + 1]
  ELSE ElbowFrom(ks, inr, 2, ks[1], <<-1, 0>>)

(***************************************************************************)
(* K-selection policy (App.tsx 287-303)                                    *)
(***************************************************************************)
\* silhouette.reduce((bi, v, i, arr) => (v > arr[bi] ? i : bi), 0), 1-based
RECURSIVE ArgMaxFrom(_, _, _)
ArgMaxFrom(sil, i, bi) ==
  IF i > Len(sil) THEN bi
  ELSE ArgMaxFrom(sil, i + 1, IF Less(sil[bi], sil[i]) THEN i ELSE bi)

\* ks.indexOf(v), 1-based; 0 when absent
RECURSIVE IndexOf(_, _, _)
IndexOf(ks, v, i) ==
  IF i > Len(ks) THEN 0 ELSE IF ks[i] = v THEN i ELSE IndexOf(ks, v, i + 1)

\* variant: the gap is not compared, bestBySil wins whenever it is far
SelectKNoGap(method, minGap, ks, sil, suggestedK, bestBySil) ==
  IF method = "silhouette" THEN bestBySil
  ELSE IF method = "elbow" THEN suggestedK
  ELSE IF Abs(suggestedK - bestBySil) <= 1 THEN Min(suggestedK, bestBySil)
  ELSE bestBySil

\* variant: compromise takes the larger of the two only when its silhouette
\* exceeds that of the smaller by minGap, and the smaller otherwise
SelectKSmaller(method, minGap, ks, sil, suggestedK, bestBySil) ==
  IF method = "silhouette" THEN bestBySil
  ELSE IF method = "elbow" THEN suggestedK
  ELSE LET lo == Min(suggestedK, bestBySil)
           hi == Max(suggestedK, bestBySil)
       IN  IF hi - lo > 1 /\ Geq(RatSub(sil[IndexOf(ks, hi, 1)], sil[IndexOf(ks, lo, 1)]),
                                  minGap)
           THEN hi ELSE lo

\* the selection modes (App.tsx 290-303)
SelectK(method, minGap, ks, sil, suggestedK, bestBySil) ==
  IF method = "silhouette" THEN bestBySil
  ELSE IF method = "elbow" THEN suggestedK
  ELSE LET silEl == sil[IndexOf(ks, suggestedK, 1)]
           silBest == sil[IndexOf(ks, bestBySil, 1)]
       IN  IF Abs(suggestedK - bestBySil) <= 1 THEN Min(suggestedK, bestBySil)
           ELSE IF Geq(RatSub(silBest, silEl), minGap) THEN bestBySil
           ELSE suggestedK

(***************************************************************************)
(* Segment labeler: nameSegments (App.tsx 2440-2448)                       *)
(***************************************************************************)
CATEGORY_NAMES ==
  <<"Transportation", "Health", "LuxuryGoods", "Service", "Telecommunications",
    "Groceries", "Clothing", "Food&Beverage", "PublicUtilities", "Others">>

SEGMENT_NAME_DICT ==
  <<"Commuters", "Wellness Focus", "Luxury-leaning", "Service Seekers",
    "Connected Core", "Essentialists", "Style Savvy", "Foodies", "Utility Focus",
    "Misc Explorers">>

\* the first column of the largest value: idx[0].j after the stable sort
RECURSIVE Top1(_, _, _)
Top1(v, j, bj) ==
  IF j > Len(v) THEN bj ELSE Top1(v, j + 1, IF v[j] > v[bj] THEN j ELSE bj)

\* every category has an entry in the dictionary, so the "top1 & top2"
\* fallback is never taken
nameSegments(cen) ==
  SeqOf([c \in 1..Len(cen) |-> SEGMENT_NAME_DICT[Top1(cen[c].num, 1, 1)]], Len(cen))

(***************************************************************************)
(* Seed deriver: hashMatrixForSeed (App.tsx 2389-2408)                     *)
(***************************************************************************)
FNV_OFFSET == <<33052, 40389>>  \* 2166136261

FNV_PRIME == <<256, 403>>       \* 16777619

\* Math.round(row[j] * 1000) of an integer feature value; the bit operations
\* that follow take NaN as 0
Quantize(val) == IF val = NaNCell THEN 0 ELSE val * 1000

\* the three xor-multiply rounds over the bytes of a quantized value
HashValue(h, q) ==
  LET h1 == Imul(Xor32(h, <<0, q % 256>>), FNV_PRIME)
      h2 == Imul(Xor32(h1, <<0, (q \div 256) % 256>>), FNV_PRIME)
  IN  Imul(Xor32(h2, <<0, (q \div W16) % 256>>), FNV_PRIME)

\* The folds below test their accumulator (a test that is always true) before
\* they use it: TLC evaluates LET lazily, and the test keeps the evaluation
\* from nesting once per hashed value.

\* the inner loop: the hash after columns 1..j of a row, from the hash h before it
RECURSIVE HashRow(_, _, _)
HashRow(h, row, j) ==
  IF j = 0 THEN h
  ELSE LET g == HashRow(h, row, j - 1)
       IN  IF g[1] >= 0 THEN HashValue(g, Quantize(row[j])) ELSE g

\* the outer loop: the hash after the sampled rows 0, step, ..., r * step
RECURSIVE HashRows(_, _, _)
HashRows(M, step, r) ==
  LET g == IF r = 0 THEN FNV_OFFSET ELSE HashRows(M, step, r - 1)
      row == M[(r * step) + 1]
  IN  IF g[1] >= 0 THEN HashRow(g, row, Len(row)) ELSE g

hashMatrixForSeed(M) ==
  LET step == Max(1, Len(M) \div 128)
      h == IF Len(M) = 0 THEN FNV_OFFSET ELSE HashRows(M, step, (Len(M) - 1) \div step)
  IN  ((h[1] % 32768) * W16) + h[2]

(***************************************************************************)
(* Nullable values: null is the empty sequence, a value v is <<v>>.        *)
(***************************************************************************)
null == <<>>

Some(v) == <<v>>

(***************************************************************************)
(* The sweep of autoCluster (App.tsx 278-286): kmeans and the silhouette   *)
(* for kk = 2..10, in that order.  A TypeError of kmeans leaves the loop.  *)
(***************************************************************************)
\* the results of kmeans(input, kk, 30, seed) for kk = 2..10; position i holds kk = i + 1
SweepResults(M, sd) == SeqOf([i \in 1..9 |-> kmeans(M, i + 1, 30, sd, 10)], 9)

\* the arrays the loop pushes to, from the results res; an exception of
\* kmeans leaves autoCluster before any of them is used
SweepArrays(M, res) ==
  IF \E i \in 1..9 : res[i].thrown THEN Thrown
  ELSE [thrown |-> FALSE,
        ks |-> SeqOf([i \in 1..9 |-> i + 1], 9),
        inertia |-> SeqOf([i \in 1..9 |-> res[i].inertia], 9),
        silhouette |-> SeqOf([i \in 1..9 |->
                                silhouetteApprox(M, res[i].labels, res[i].centroids)], 9),
        results |-> res]

Sweep(M, sd) == SweepArrays(M, SweepResults(M, sd))

(***************************************************************************)
(* The files the fetch of loadCsv can find: a dataset of ten members and   *)
(* one of three, each N x 10.  The sweeps of these datasets are computed   *)
(* once, for the seeds the session can hold.                               *)
(***************************************************************************)
KMEANS_SEED == 12345

BigData ==
  <<<<1, 0, 0, 0, 0, 0, 0, 0, 0, 0>>, <<0, 1, 0, 0, 0, 0, 0, 0, 0, 0>>,
    <<1, 1, 0, 0, 0, 0, 0, 0, 0, 0>>, <<0, 0, 1, 0, 0, 0, 0, 0, 0, 0>>,
    <<2, 0, 0, 0, 0, 0, 0, 0, 0, 1>>, <<0, 2, 0, 0, 0, 0, 0, 0, 1, 0>>,
    <<0, 0, 0, 2, 0, 0, 0, 0, 0, 0>>, <<1, 0, 0, 0, 1, 0, 0, 0, 0, 0>>,
    <<0, 0, 0, 0, 0, 1, 1, 0, 0, 0>>, <<0, 0, 0, 0, 0, 0, 0, 2, 0, 0>>>>

SmallData == SubSeq(BigData, 1, 3)

Datasets == <<BigData, SmallData>>

\* the seeds a user or the URL sets
UserSeeds == <<KMEANS_SEED, 7>>

\* hashMatrixForSeed of each dataset, computed once
DatasetSeeds ==
  SeqOf([di \in 1..Len(Datasets) |-> hashMatrixForSeed(Datasets[di])], Len(Datasets))

\* the seeds clusterSeed can hold while dataset number di is loaded
SeedsOf(di) == <<DatasetSeeds[di]>> \o UserSeeds

SweepTable ==
  SeqOf([di \in 1..Len(Datasets) |->
           SeqOf([si \in 1..Len(SeedsOf(di)) |-> Sweep(Datasets[di], SeedsOf(di)[si])],
                 Len(SeedsOf(di)))],
        Len(Datasets))

\* the number of the dataset M, and of the seed sd among the seeds of dataset di
DatasetIndex(M) == CHOOSE n \in 1..Len(Datasets) : Datasets[n] = M

SeedIndex(di, sd) == CHOOSE n \in 1..Len(SeedsOf(di)) : SeedsOf(di)[n] = sd

\* Sweep(M, sd), looked up
SweepAt(di, sd) == SweepTable[di][SeedIndex(di, sd)]

SweepOf(M, sd) == SweepAt(DatasetIndex(M), sd)

(***************************************************************************)
(* One invocation of kmeans, step by step.  Control points: "call" (the    *)
(* call is made), "start" (runOnce is entered), "loop" (the head of the    *)
(* while loop), "update" (between the assign and the update step),         *)
(* "return" (after the multi-start loop), "done" (returned), "thrown" (a   *)
(* TypeError left the function).                                           *)
(***************************************************************************)
MaxRows == 3

MaxK == 4

MaxIter == 2

MaxInit == 3

RowPool == {<<0, 0>>, <<3, 0>>, <<0, 4>>}

Seeds == {KMEANS_SEED, 7}

\* the matrices kmeans is called on: up to MaxRows rows of the pool
Matrices == UNION {{SeqOf(f, n) : f \in [1..n -> RowPool]} : n \in 0..MaxRows}

appVars ==
  <<mat, rows, loading, error, clusterSeed, elbow, clusterLabels, centroids,
    segmentNames, selectedCluster, selectionMethod, silMinGap, computing,
    didLoad, inflight, lastCall, nSweeps, supplied, used,
    memberIndex, topK, minThreshold, recs, effect, recsOf>>

recVars == <<memberIndex, topK, minThreshold, recs, effect, recsOf>>

runVars ==
  <<input, K, maxIter, seed, nInit, t, labels, centers, changed, it, best, pc,
    out, runs, before>>

callVars == <<ncalls, memo, call>>

orderVars == <<order, acc>>

fnVars == <<fnArg, fnOut>>

heapVars == <<heap, frame>>

vars == <<appVars, runVars, callVars, orderVars, fnVars, heapVars>>

\* App as it is constructed (App.tsx 155-181)
AppInit ==
  /\ mat = null /\ rows = 0 /\ loading = TRUE /\ error = null
  /\ clusterSeed = KMEANS_SEED /\ elbow = null /\ clusterLabels = null
  /\ centroids = null /\ segmentNames = null /\ selectedCluster = 0
  /\ selectionMethod = "silhouette" /\ silMinGap = <<50, 1000>>
  /\ computing = FALSE /\ didLoad = FALSE /\ inflight = FALSE
  /\ lastCall = "none" /\ nSweeps = 0 /\ supplied = null /\ used = null
  /\ memberIndex = 0 /\ topK = 3 /\ minThreshold = 0 /\ recs = null
  /\ effect = FALSE /\ recsOf = null

\* no invocation of kmeans is being stepped
RunIdle ==
  /\ input = <<>> /\ K = 0 /\ maxIter = 0 /\ seed = 0 /\ nInit = 0 /\ t = 0
  /\ labels = <<>> /\ centers = <<>> /\ changed = FALSE /\ it = 0
  /\ best = null /\ pc = "idle" /\ out = null /\ runs = <<>> /\ before = <<>>

CallsIdle == ncalls = 0 /\ memo = null /\ call = null

OrderIdle == order = <<>> /\ acc = null

FnIdle == fnArg = null /\ fnOut = null

HeapIdle == heap = <<>> /\ frame = null

\* the locals of runOnce as the record the operators of the core work on
Run == [labels |-> labels, centers |-> centers, changed |-> changed, it |-> it]

\* kmeans is called: N and D are read (mat[0].length throws on no rows);
\* no start has run, so best holds nothing and t is 0 (App.tsx 2450-2453)
Enter ==
  /\ pc = "call"
  /\ IF Len(input) = 0
     THEN pc' = "thrown" /\ UNCHANGED <<t, best>>
     ELSE pc' = "start" /\ t' = 0 /\ best' = null
  /\ UNCHANGED <<input, K, maxIter, seed, nInit, labels, centers, changed, it,
                 out, runs, before>>
  /\ UNCHANGED <<appVars, callVars, orderVars, fnVars, heapVars>>

\* runOnce(seed + t * 101) up to the head of its loop (App.tsx 2471-2482)
StartRun ==
  /\ pc = "start"
  /\ LET st == RunStart(input, K, StartSeed(seed, t))
     IN  /\ labels' = st.labels
         /\ centers' = st.centers
         /\ changed' = st.changed
         /\ it' = st.it
  /\ before' = <<>>
  /\ pc' = "loop"
  /\ UNCHANGED <<input, K, maxIter, seed, nInit, t, best, out, runs>>
  /\ UNCHANGED <<appVars, callVars, orderVars, fnVars, heapVars>>

\* one assign step (App.tsx 2484-2494)
AssignStep ==
  /\ pc = "loop" /\ changed /\ it < maxIter
  /\ IF AssignThrows(input, centers, K)
     THEN pc' = "thrown" /\ UNCHANGED <<labels, changed, it>>
     ELSE LET sa == AfterAssign(input, K, Run)
          IN  /\ labels' = sa.labels
              /\ changed' = sa.changed
              /\ it' = sa.it
              /\ pc' = "update"
  /\ UNCHANGED <<input, K, maxIter, seed, nInit, t, centers, best, out, runs, before>>
  /\ UNCHANGED <<appVars, callVars, orderVars, fnVars, heapVars>>

\* one update step (App.tsx 2495-2508)
UpdateStep ==
  /\ pc = "update"
  /\ IF UpdateThrows(input, labels, K)
     THEN pc' = "thrown" /\ UNCHANGED <<centers, before>>
     ELSE /\ centers' = AfterUpdate(input, K, Run).centers
          /\ before' = centers
          /\ pc' = "loop"
  /\ UNCHANGED <<input, K, maxIter, seed, nInit, t, labels, changed, it, best, out, runs>>
  /\ UNCHANGED <<appVars, callVars, orderVars, fnVars, heapVars>>

\* the loop of runOnce is left, the run is returned and merged into best
\* (App.tsx 2510-2520)
FinishRun ==
  /\ pc = "loop" /\ ~(changed /\ it < maxIter)
  /\ LET trial == Finish(input, Run)
     IN  IF trial.thrown
         THEN pc' = "thrown" /\ UNCHANGED <<t, best, runs>>
         ELSE /\ best' = IF t = 0 THEN Some(trial) ELSE Some(Keep(trial, best[1]))
              /\ runs' = Append(runs, [seed |-> StartSeed(seed, t), changed |-> changed, it |-> it,
                                       labels |-> trial.labels, centers |-> trial.centers,
                                       inertia |-> trial.inertia])
              /\ t' = t + 1
              /\ pc' = IF t + 1 < nInit THEN "start" ELSE "return"
  /\ UNCHANGED <<input, K, maxIter, seed, nInit, labels, centers, changed, it, out, before>>
  /\ UNCHANGED <<appVars, callVars, orderVars, fnVars, heapVars>>

\* the return statement of kmeans (App.tsx 2521)
Return ==
  /\ pc = "return"
  /\ out' = Some(Result(best[1]))
  /\ pc' = "done"
  /\ UNCHANGED <<input, K, maxIter, seed, nInit, t, labels, centers, changed, it,
                 best, runs, before>>
  /\ UNCHANGED <<appVars, callVars, orderVars, fnVars, heapVars>>

KMeansInit ==
  /\ input \in Matrices
  /\ K \in 0..MaxK
  /\ maxIter \in 0..MaxIter
  /\ seed \in Seeds
  /\ nInit \in 1..MaxInit
  /\ t = 0 /\ labels = <<>> /\ centers = <<>> /\ changed = FALSE /\ it = 0
  /\ best = null /\ pc = "call" /\ out = null /\ runs = <<>> /\ before = <<>>
  /\ AppInit
  /\ CallsIdle
  /\ OrderIdle
  /\ FnIdle /\ HeapIdle

KMeansNext ==
  \/ Enter
  \/ StartRun
  \/ AssignStep
  \/ UpdateStep
  \/ FinishRun
  \/ Return

SpecKMeans == KMeansInit /\ [][KMeansNext]_vars

(***************************************************************************)
(* kmeans over arrays held by reference (App.tsx 2450-2522).  The rows of  *)
(* the matrix, the centroids and the label arrays are objects of the heap; *)
(* an object is [num, den], a row or a label array having den = 1.  The    *)
(* values of a run are those of the operators of the core.                 *)
(***************************************************************************)
MaxHeapRows == 2

MaxHeapK == 3

MaxHeapInit == 2

\* the matrices of the calls: up to MaxHeapRows rows of the pool
HeapMatrices == UNION {{SeqOf(f, n) : f \in [1..n -> RowPool]} : n \in 0..MaxHeapRows}

\* variant: the row itself is taken as the centroid
Shared(rowRef, fresh) == rowRef

\* mat[i].slice() (App.tsx 2479): the reference of the copy, not of the row
Slice(rowRef, fresh) == fresh

\* the matrix as kmeans reads it through the references of its rows
Deref(h, refs) == SeqOf([i \in 1..Len(refs) |-> h[refs[i]].num], Len(refs))

\* the centroids as read through their references
DerefCentroids(h, refs) == SeqOf([c \in 1..Len(refs) |-> h[refs[c]]], Len(refs))

HeapInit ==
  /\ AppInit /\ RunIdle /\ CallsIdle /\ OrderIdle /\ FnIdle
  /\ \E M \in HeapMatrices, k \in 1..MaxHeapK, mi \in 0..MaxIter, sd \in Seeds,
        ni \in 1..MaxHeapInit :
       /\ heap = SeqOf([i \in 1..Len(M) |-> RowCopy(M[i])], Len(M))
       /\ frame = [M |-> M, K |-> k, maxIter |-> mi, seed |-> sd, nInit |-> ni,
                   mat |-> SeqOf([i \in 1..Len(M) |-> i], Len(M)),
                   pc |-> "call", t |-> 0, run |-> null, labels |-> 0,
                   centers |-> <<>>, best |-> null, bestRefs |-> null,
                   result |-> null, sil |-> null, hash |-> null, written |-> FALSE]

\* hashMatrixForSeed(matrix) before the call (App.tsx 227, 2381-2409): reads only
HeapHash ==
  /\ frame.pc = "call" /\ frame.hash = null
  /\ frame' = [frame EXCEPT !.hash = Some(hashMatrixForSeed(Deref(heap, frame.mat)))]
  /\ UNCHANGED heap
  /\ UNCHANGED <<appVars, runVars, callVars, orderVars, fnVars>>

\* kmeans is entered: mat[0].length throws on no rows (App.tsx 2452-2453)
HeapEnter ==
  /\ frame.pc = "call"
  /\ frame' = [frame EXCEPT !.pc = IF Len(frame.mat) = 0 THEN "thrown" ELSE "start"]
  /\ UNCHANGED heap
  /\ UNCHANGED <<appVars, runVars, callVars, orderVars, fnVars>>

\* runOnce up to its loop (App.tsx 2471-2482): a copy of each chosen row and
\* a new label array are made
HeapStartRun ==
  /\ frame.pc = "start"
  /\ LET M == Deref(heap, frame.mat)
         s == StartSeed(frame.seed, frame.t)
         st == RunStart(M, frame.K, s)
         idx == Shuffle(Len(M), s)
         n == Len(st.centers)
         base == Len(heap)
     IN  /\ heap' = heap \o st.centers \o <<RowCopy(st.labels)>>
         /\ frame' = [frame EXCEPT
                        !.run = Some(st),
                        !.centers = SeqOf([c \in 1..n |->
                                             Slice(frame.mat[idx[c] + 1], base + c)], n),
                        !.labels = base + n + 1,
                        !.pc = "loop"]
  /\ UNCHANGED <<appVars, runVars, callVars, orderVars, fnVars>>

\* Array(D).fill(0): the sums of a cluster without rows
Zeros(dim) == RowCopy(SeqOf([d \in 1..dim |-> 0], dim))

\* one iteration (App.tsx 2483-2509): the labels are written in place, the
\* sums are new arrays, and centers[c] = sums[c] for each cluster with a row
HeapIterate ==
  /\ frame.pc = "loop" /\ frame.run[1].changed /\ frame.run[1].it < frame.maxIter
  /\ LET M == Deref(heap, frame.mat)
         st == [frame.run[1] EXCEPT !.centers = DerefCentroids(heap, frame.centers)]
     IN  IF AssignThrows(M, st.centers, frame.K)
         THEN frame' = [frame EXCEPT !.pc = "thrown"] /\ UNCHANGED heap
         ELSE LET sa == AfterAssign(M, frame.K, st)
                  su == AfterUpdate(M, frame.K, sa)
                  written == [heap EXCEPT ![frame.labels] = RowCopy(sa.labels)]
                  base == Len(heap)
                  lives(c) == Count(sa.labels, c - 1, Len(M)) > 0
              IN  IF UpdateThrows(M, sa.labels, frame.K)
                  THEN frame' = [frame EXCEPT !.pc = "thrown"] /\ heap' = written
                  ELSE /\ heap' = written \o
                                    SeqOf([c \in 1..frame.K |->
                                             IF lives(c) THEN su.centers[c]
                                             ELSE Zeros(Len(M[1]))], frame.K)
                       /\ frame' = [frame EXCEPT
                                      !.run = Some(su),
                                      !.centers = SeqOf([c \in 1..frame.K |->
                                                           IF lives(c) THEN base + c
                                                           ELSE frame.centers[c]],
                                                        frame.K)]
  /\ UNCHANGED <<appVars, runVars, callVars, orderVars, fnVars>>

\* the run is returned and merged into best (App.tsx 2510-2520)
HeapFinish ==
  /\ frame.pc = "loop" /\ ~(frame.run[1].changed /\ frame.run[1].it < frame.maxIter)
  /\ LET M == Deref(heap, frame.mat)
         st == [labels |-> heap[frame.labels].num,
                centers |-> DerefCentroids(heap, frame.centers)]
         trial == Finish(M, st)
         refs == [labels |-> frame.labels, centers |-> frame.centers]
     IN  IF trial.thrown
         THEN frame' = [frame EXCEPT !.pc = "thrown"]
         ELSE LET kept == frame.t = 0 \/ Better(trial, frame.best[1])
              IN  frame' = [frame EXCEPT
                              !.best = IF kept THEN Some(trial) ELSE @,
                              !.bestRefs = IF kept THEN Some(refs) ELSE @,
                              !.t = @ + 1,
                              !.pc = IF frame.t + 1 < frame.nInit THEN "start"
                                     ELSE "return"]
  /\ UNCHANGED heap
  /\ UNCHANGED <<appVars, runVars, callVars, orderVars, fnVars>>

\* return { labels: Array.from(best.labels), centroids: best.centers, .. }
\* (App.tsx 2521)
HeapReturn ==
  /\ frame.pc = "return"
  /\ heap' = Append(heap, heap[frame.bestRefs[1].labels])
  /\ frame' = [frame EXCEPT
                 !.result = Some([labels |-> Len(heap) + 1,
                                  centroids |-> frame.bestRefs[1].centers]),
                 !.pc = "done"]
  /\ UNCHANGED <<appVars, runVars, callVars, orderVars, fnVars>>

\* silhouetteApprox(input, res.labels, res.centroids) on the result, as
\* autoCluster calls it (App.tsx 285, 2415-2437): reads only
HeapScore ==
  /\ frame.pc = "done" /\ frame.sil = null /\ ~frame.written
  /\ frame' = [frame EXCEPT
                 !.sil = Some(silhouetteApprox(Deref(heap, frame.mat),
                                               heap[frame.result[1].labels].num,
                                               DerefCentroids(heap,
                                                              frame.result[1].centroids)))]
  /\ UNCHANGED heap
  /\ UNCHANGED <<appVars, runVars, callVars, orderVars, fnVars>>

\* the caller changes an element of a returned array: component d of
\* centroid c, or label d when c is 0
CallerWrites(c, d, v) ==
  /\ frame.pc = "done" /\ ~frame.written
  /\ c <= Len(frame.result[1].centroids)
  /\ LET r == IF c = 0 THEN frame.result[1].labels ELSE frame.result[1].centroids[c]
     IN  /\ d <= Len(heap[r].num)
         /\ heap' = [heap EXCEPT ![r] = [num |-> [@.num EXCEPT ![d] = v * heap[r].den],
                                         den |-> @.den]]
  /\ frame' = [frame EXCEPT !.written = TRUE]
  /\ UNCHANGED <<appVars, runVars, callVars, orderVars, fnVars>>

HeapNext ==
  \/ HeapHash
  \/ HeapEnter
  \/ HeapStartRun
  \/ HeapIterate
  \/ HeapFinish
  \/ HeapReturn
  \/ HeapScore
  \/ \E c \in 0..MaxHeapK, d \in 1..MaxHeapRows, v \in {7} : CallerWrites(c, d, v)

SpecHeap == HeapInit /\ [][HeapNext]_vars

\* the steps compute what the operator kmeans computes
StepsAgree ==
  /\ pc = "done" => out[1] = kmeans(input, K, maxIter, seed, nInit)
  /\ pc = "thrown" => kmeans(input, K, maxIter, seed, nInit).thrown

(***************************************************************************)
(* Invocations of kmeans one after another.  The locals of an invocation   *)
(* keep what the invocation before left in them until the code assigns     *)
(* them; memo remembers the arguments and the outcome of one invocation,   *)
(* call the arguments of the invocation before the current one.            *)
(***************************************************************************)
MaxCalls == 3

CallMatrices == {<<<<0, 0>>, <<3, 0>>, <<0, 4>>>>, <<<<0, 0>>, <<0, 0>>, <<0, 4>>>>}

Args == [input |-> input, K |-> K, maxIter |-> maxIter, seed |-> seed, nInit |-> nInit]

\* what the invocation gave its caller: the object returned or the exception
Outcome == IF pc = "thrown" THEN Thrown ELSE out[1]

\* a caller calls kmeans(M, k, mi, sd, ni) (App.tsx 2450)
Invoke(M, k, mi, sd, ni) ==
  /\ pc \in {"idle", "done", "thrown"}
  /\ ncalls < MaxCalls
  /\ input' = M /\ K' = k /\ maxIter' = mi /\ seed' = sd /\ nInit' = ni
  /\ pc' = "call"
  /\ out' = null
  /\ runs' = <<>>
  /\ ncalls' = ncalls + 1
  /\ call' = IF pc = "idle" THEN null ELSE Some(Args)
  /\ UNCHANGED <<t, labels, centers, changed, it, best, before, memo>>
  /\ UNCHANGED <<appVars, orderVars, fnVars, heapVars>>

\* the caller keeps the outcome of the invocation that has just ended
Remember ==
  /\ pc \in {"done", "thrown"}
  /\ memo = null
  /\ memo' = Some([args |-> Args, outcome |-> Outcome, at |-> ncalls])
  /\ UNCHANGED <<ncalls, call>>
  /\ UNCHANGED <<appVars, runVars, orderVars, fnVars, heapVars>>

CallsInit == AppInit /\ RunIdle /\ CallsIdle /\ OrderIdle /\ FnIdle /\ HeapIdle

CallsNext ==
  \/ \E M \in CallMatrices, k \in 1..2, sd \in Seeds, ni \in 1..2 : Invoke(M, k, MaxIter, sd, ni)
  \/ Enter
  \/ StartRun
  \/ AssignStep
  \/ UpdateStep
  \/ FinishRun
  \/ Return
  \/ Remember

SpecCalls == CallsInit /\ [][CallsNext]_vars

(***************************************************************************)
(* The two reductions with their items taken in any order: the statements  *)
(* of the multi-start loop of kmeans (App.tsx 2516-2520) merging the       *)
(* starts, and                                                             *)
(* the body of the sweep loop of autoCluster (App.tsx 281-286) pushing the *)
(* K values 2..MaxSweepK.  pc tells which reduction the behaviour is of.   *)
(***************************************************************************)
MaxSweepK == 5

\* start j of the invocation: runOnce(seed + j * 101) (App.tsx 2516, 2518)
Trial(j) == runOnce(input, K, maxIter, StartSeed(seed, j))

\* best = runOnce(..) for the first start merged, then
\* if (trial.inertia < best.inertia) best = trial (App.tsx 2516, 2519)
Merge(trial, bst) == IF bst = null THEN trial ELSE Keep(trial, bst[1])

\* variant: unshift
PushFront(arr, v) == <<v>> \o arr

\* Array.prototype.push (App.tsx 283-285)
Push(arr, v) == Append(arr, v)

\* the body of the sweep loop for kk, res being the sweep's kmeans results
PushResult(a, kk, sw) ==
  [ks |-> Push(a.ks, kk),
   inertia |-> Push(a.inertia, sw.inertia[kk - 1]),
   silhouette |-> Push(a.silhouette, sw.silhouette[kk - 1])]

NoArrays == [ks |-> <<>>, inertia |-> <<>>, silhouette |-> <<>>]

InSeq(sq, v) == \E i \in 1..Len(sq) : sq[i] = v

MergeStart(j) ==
  /\ pc = "starts"
  /\ j < nInit
  /\ ~InSeq(order, j)
  /\ acc' = Some(Merge(Trial(j), acc))
  /\ order' = Append(order, j)
  /\ UNCHANGED <<appVars, runVars, callVars, fnVars, heapVars>>

PushK(kk) ==
  /\ pc = "sweep"
  /\ ~InSeq(order, kk)
  /\ acc' = Some(PushResult(acc[1], kk, SweepOf(input, seed)))
  /\ order' = Append(order, kk)
  /\ UNCHANGED <<appVars, runVars, callVars, fnVars, heapVars>>

OrderInit ==
  /\ AppInit
  /\ CallsIdle
  /\ FnIdle /\ HeapIdle
  /\ t = 0 /\ labels = <<>> /\ centers = <<>> /\ changed = FALSE /\ it = 0
  /\ best = null /\ out = null /\ runs = <<>> /\ before = <<>>
  /\ seed \in Seeds
  /\ order = <<>>
  /\ \/ /\ pc = "starts"
        /\ input \in CallMatrices
        /\ K \in 1..3
        /\ maxIter = MaxIter
        /\ nInit = MaxInit
        /\ acc = null
     \/ /\ pc = "sweep"
        /\ input = BigData
        /\ K = 0
        /\ maxIter = 30
        /\ nInit = 10
        /\ acc = Some(NoArrays)

OrderNext ==
  \/ \E j \in 0..(MaxInit - 1) : MergeStart(j)
  \/ \E kk \in 2..MaxSweepK : PushK(kk)

SpecAnyOrder == OrderInit /\ [][OrderNext]_vars

(***************************************************************************)
(* App: the mount effect, loadCsv, autoCluster and the controls.  A        *)
(* handler runs to its end (or to its await) in one step: autoCluster has  *)
(* no await, so React sees its state updates together.                     *)
(***************************************************************************)
MaxSweeps == 2

Methods == {"silhouette", "elbow", "compromise"}

\* values of silMinGap: the default 0.05, and 0.5
Gaps == {<<50, 1000>>, <<500, 1000>>}

\* what the catch of loadCsv puts in error, by the cause
LoadErrors == {"HTTP status", "CSV must be N x 10 (no header).", "Failed to fetch"}

\* loadCsv up to its first await (App.tsx 202-212).  A pending load is
\* aborted: its fetch rejects, and its catch and finally (App.tsx 233-242) run
\* once this call has reached its await.
StartLoad ==
  /\ loading' = ~inflight
  /\ error' = IF inflight THEN Some("AbortError") ELSE null
  /\ mat' = IF inflight THEN null ELSE mat
  /\ rows' = IF inflight THEN 0 ELSE rows
  /\ inflight' = TRUE

\* the mount effect (App.tsx 245-261): URL parameters present (Some) or absent
Mount(m, sd, g) ==
  /\ ~didLoad
  /\ didLoad' = TRUE
  /\ selectionMethod' = IF m = null THEN selectionMethod ELSE m[1]
  /\ clusterSeed' = IF sd = null THEN clusterSeed ELSE sd[1]
  /\ silMinGap' = IF g = null THEN silMinGap ELSE g[1]
  /\ supplied' = sd
  /\ StartLoad
  /\ UNCHANGED <<elbow, clusterLabels, centroids, segmentNames, selectedCluster,
                 computing, lastCall, nSweeps, used>>
  /\ UNCHANGED <<runVars, callVars, orderVars, fnVars, recVars, heapVars>>

\* the button Retry Load Data, rendered while mat is null (App.tsx 429-437)
Retry ==
  /\ didLoad /\ mat = null
  /\ StartLoad
  /\ UNCHANGED <<clusterSeed, elbow, clusterLabels, centroids, segmentNames,
                 selectedCluster, selectionMethod, silMinGap, computing, didLoad,
                 lastCall, nSweeps, supplied, used>>
  /\ UNCHANGED <<runVars, callVars, orderVars, fnVars, recVars, heapVars>>

\* variant: the load runs the sweep and publishes the elbow of the dataset
ElbowOnLoad(di) ==
  LET sw == SweepAt(di, DatasetSeeds[di])
  IN  IF sw.thrown THEN null
      ELSE Some([ks |-> sw.ks, inertia |-> sw.inertia, silhouette |-> sw.silhouette,
                 suggestedK |-> suggestElbow(sw.ks, sw.inertia)])

\* setElbow(null) (App.tsx 229): the load leaves no result of a sweep
LoadedElbow(di) == null

\* variant: the load leaves labels, all 0, for the rows of the dataset
LabelsOnLoad(di) == Some([i \in 1..Len(Datasets[di]) |-> 0])

\* setClusterLabels(null) (App.tsx 230)
LoadedLabels(di) == null

\* the pending load finds an N x 10 file (App.tsx 212-232, 240-242)
LoadOk(di) ==
  /\ inflight
  /\ inflight' = FALSE
  /\ mat' = Some(Datasets[di])
  /\ rows' = Len(Datasets[di])
  /\ clusterSeed' = DatasetSeeds[di]
  /\ elbow' = LoadedElbow(di)
  /\ clusterLabels' = LoadedLabels(di)
  /\ centroids' = null /\ segmentNames' = null
  /\ loading' = FALSE
  /\ UNCHANGED <<error, selectedCluster, selectionMethod, silMinGap, computing, didLoad,
                 lastCall, nSweeps, supplied, used>>
  /\ memberIndex' = 0
  /\ effect' = (effect \/ memberIndex # 0)
  /\ UNCHANGED <<runVars, callVars, orderVars, fnVars, heapVars, topK, minThreshold, recs, recsOf>>

\* the pending load fails (App.tsx 212-221, 233-242)
LoadFails(msg) ==
  /\ inflight
  /\ inflight' = FALSE
  /\ error' = Some(msg)
  /\ mat' = null /\ rows' = 0
  /\ loading' = FALSE
  /\ UNCHANGED <<clusterSeed, elbow, clusterLabels, centroids, segmentNames,
                 selectedCluster, selectionMethod, silMinGap, computing, didLoad,
                 lastCall, nSweeps, supplied, used>>
  /\ UNCHANGED <<runVars, callVars, orderVars, fnVars, recVars, heapVars>>

\* variant: autoCluster without its guard
NeverRejects(flag) == FALSE

\* if (computing) return (App.tsx 276)
Rejects(flag) == flag

\* the object passed to setElbow (App.tsx 287-304)
ElbowRecord(sw, method, minGap, suggestedK, bestBySil) ==
  [ks |-> sw.ks, inertia |-> sw.inertia, silhouette |-> sw.silhouette,
   suggestedK |-> suggestedK, bestBySil |-> bestBySil,
   finalK |-> SelectK(method, minGap, sw.ks, sw.silhouette, suggestedK, bestBySil)]

ElbowOf(sw, method, minGap) ==
  ElbowRecord(sw, method, minGap, suggestElbow(sw.ks, sw.inertia),
              sw.ks[ArgMaxFrom(sw.silhouette, 1, 1)])

\* variant: the final run is the one of the first K of the sweep
FinalRunAtFirstK(sw, finalK) == sw.results[1]

\* kmeans(input, finalK, 30, seed) (App.tsx 306): the call the sweep made for finalK
FinalRun(sw, finalK) == sw.results[IndexOf(sw.ks, finalK, 1)]

\* the try block (App.tsx 305-313) with the result res of the final kmeans
SetSegments(res) ==
  /\ clusterLabels' = Some(res.labels)
  /\ centroids' = Some(res.centroids)
  /\ segmentNames' = Some(nameSegments(res.centroids))
  /\ selectedCluster' = 0
  /\ computing' = FALSE
  /\ lastCall' = "finished"

\* setElbow and what follows it (App.tsx 304-313), with the object el
Publish(el, sw) ==
  /\ elbow' = Some(el)
  /\ SetSegments(FinalRun(sw, el.finalK))

\* autoCluster after setComputing(true), with the sweep sw of its loop: an
\* exception of the sweep leaves the function there (App.tsx 278-313)
AfterSweep(sw) ==
  IF sw.thrown
  THEN /\ computing' = TRUE
       /\ lastCall' = "threw"
       /\ UNCHANGED <<elbow, clusterLabels, centroids, segmentNames, selectedCluster>>
  ELSE Publish(ElbowOf(sw, selectionMethod, silMinGap), sw)

\* variant: the guard reports an error before it returns
ReturnWithError ==
  /\ error' = Some("ComputationInProgress")
  /\ UNCHANGED <<elbow, clusterLabels, centroids, segmentNames, selectedCluster,
                 computing, nSweeps>>

\* the return of the guard (App.tsx 276): no state is set
EarlyReturn ==
  UNCHANGED <<error, elbow, clusterLabels, centroids, segmentNames, selectedCluster,
              computing, nSweeps>>

\* autoCluster(mat, clusterSeed) (App.tsx 275-314), called from a button
\* (App.tsx 1725, 2148) or while the buttons are disabled
AutoCluster ==
  /\ mat # null
  /\ IF Rejects(computing)
     THEN /\ lastCall' = "dropped"
          /\ EarlyReturn
          /\ UNCHANGED used
     ELSE /\ nSweeps < MaxSweeps
          /\ nSweeps' = nSweeps + 1
          /\ used' = Some([method |-> selectionMethod, seed |-> clusterSeed,
                           minGap |-> silMinGap, supplied |-> supplied])
          /\ AfterSweep(SweepOf(mat[1], clusterSeed))
          /\ UNCHANGED error
  /\ UNCHANGED <<mat, rows, loading, clusterSeed, selectionMethod, silMinGap,
                 didLoad, inflight, supplied>>
  /\ UNCHANGED <<runVars, callVars, orderVars, fnVars, recVars, heapVars>>

\* the controls of the Segments tab (App.tsx 1710, 1718, 1722, 1828)
SetSelectionMethod(m) ==
  /\ didLoad
  /\ selectionMethod' = m
  /\ UNCHANGED <<mat, rows, loading, error, clusterSeed, elbow, clusterLabels, centroids,
                 segmentNames, selectedCluster, silMinGap, computing, didLoad, inflight,
                 lastCall, nSweeps, supplied, used>>
  /\ UNCHANGED <<runVars, callVars, orderVars, fnVars, recVars, heapVars>>

SetSilMinGap(g) ==
  /\ didLoad
  /\ silMinGap' = g
  /\ UNCHANGED <<mat, rows, loading, error, clusterSeed, elbow, clusterLabels, centroids,
                 segmentNames, selectedCluster, selectionMethod, computing, didLoad,
                 inflight, lastCall, nSweeps, supplied, used>>
  /\ UNCHANGED <<runVars, callVars, orderVars, fnVars, recVars, heapVars>>

SetClusterSeed(sd) ==
  /\ didLoad
  /\ clusterSeed' = sd
  /\ supplied' = Some(sd)
  /\ UNCHANGED <<mat, rows, loading, error, elbow, clusterLabels, centroids,
                 segmentNames, selectedCluster, selectionMethod, silMinGap, computing,
                 didLoad, inflight, lastCall, nSweeps, used>>
  /\ UNCHANGED <<runVars, callVars, orderVars, fnVars, recVars, heapVars>>

SetSelectedCluster(c) ==
  /\ centroids # null
  /\ c < Len(centroids[1])
  /\ selectedCluster' = c
  /\ UNCHANGED <<mat, rows, loading, error, clusterSeed, elbow, clusterLabels, centroids,
                 segmentNames, selectionMethod, silMinGap, computing, didLoad, inflight,
                 lastCall, nSweeps, supplied, used>>
  /\ UNCHANGED <<runVars, callVars, orderVars, fnVars, recVars, heapVars>>

Init == AppInit /\ RunIdle /\ CallsIdle /\ OrderIdle /\ FnIdle /\ HeapIdle

Next ==
  \/ \E m \in {null} \cup {Some(v) : v \in Methods},
        sd \in {null} \cup {Some(UserSeeds[n]) : n \in 1..Len(UserSeeds)},
        g \in {null} \cup {Some(v) : v \in Gaps} : Mount(m, sd, g)
  \/ Retry
  \/ \E di \in 1..Len(Datasets) : LoadOk(di)
  \/ \E msg \in LoadErrors : LoadFails(msg)
  \/ AutoCluster
  \/ \E m \in Methods : SetSelectionMethod(m)
  \/ \E g \in Gaps : SetSilMinGap(g)
  \/ \E n \in 1..Len(UserSeeds) : SetClusterSeed(UserSeeds[n])
  \/ \E c \in 0..9 : SetSelectedCluster(c)

Spec == Init /\ [][Next]_vars

(***************************************************************************)
(* The functions of the module applied once to arguments drawn from small  *)
(* sets.  fnArg holds the arguments, fnOut the value once it is computed.  *)
(***************************************************************************)
NoRun == AppInit /\ RunIdle /\ CallsIdle /\ OrderIdle /\ HeapIdle

\* K-selection (App.tsx 287-304) on sweeps over ks = 2..MaxSelK
MaxSelK == 6

SelKs == SeqOf([i \in 1..(MaxSelK - 1) |-> i + 1], MaxSelK - 1)

\* an inertia curve that falls steeply up to position p and slowly after it
InertiaCurve(p) ==
  SeqOf([i \in 1..(MaxSelK - 1) |->
           <<(IF i <= p THEN (p - i) * 10 ELSE 0) + (MaxSelK - 1 - i), 1>>], MaxSelK - 1)

SilValues == {<<0, 1000>>, <<60, 1000>>, <<600, 1000>>}

SelSweeps ==
  {[ks |-> SelKs, inertia |-> InertiaCurve(p), silhouette |-> SeqOf(f, MaxSelK - 1)] :
     p \in 2..4, f \in [1..(MaxSelK - 1) -> SilValues]}

SelectInit ==
  /\ NoRun
  /\ fnOut = null
  /\ fnArg \in {Some([fn |-> "select", sw |-> w, method |-> m, minGap |-> g]) :
                   w \in SelSweeps, m \in Methods, g \in Gaps}

\* autoCluster from the end of its sweep to setElbow (App.tsx 287-304)
Select ==
  /\ fnOut = null
  /\ fnArg[1].fn = "select"
  /\ fnOut' = Some(ElbowOf(fnArg[1].sw, fnArg[1].method, fnArg[1].minGap))
  /\ UNCHANGED <<appVars, runVars, callVars, orderVars, fnArg, heapVars>>

SpecSelect == SelectInit /\ [][Select]_vars

\* suggestElbow (App.tsx 2525-2540) on ks = 2, 3, .. of length 3..MaxElbowLen
\* and inertia arrays of the same length
MaxElbowLen == 4

InertiaValues == {<<0, 1>>, <<1, 1>>, <<3, 1>>, NaN}

ElbowInit ==
  /\ NoRun
  /\ fnOut = null
  /\ fnArg \in UNION {{Some([fn |-> "elbow", ks |-> SeqOf([i \in 1..n |-> i + 1], n),
                              inertia |-> SeqOf(f, n)]) : f \in [1..n -> InertiaValues]} :
                        n \in 3..MaxElbowLen}

Locate ==
  /\ fnOut = null
  /\ fnArg[1].fn = "elbow"
  /\ fnOut' = Some(suggestElbow(fnArg[1].ks, fnArg[1].inertia))
  /\ UNCHANGED <<appVars, runVars, callVars, orderVars, fnArg, heapVars>>

SpecElbow == ElbowInit /\ [][Locate]_vars

\* suggestElbow on ks = 2, 3, .. of any length from 1 to MaxElbowLen, the
\* lengths below 3 included (App.tsx 2526)
ElbowAnyInit ==
  /\ NoRun
  /\ fnOut = null
  /\ fnArg \in UNION {{Some([fn |-> "elbow", ks |-> SeqOf([i \in 1..n |-> i + 1], n),
                              inertia |-> SeqOf(f, n)]) : f \in [1..n -> InertiaValues]} :
                        n \in 1..MaxElbowLen}

SpecElbowAny == ElbowAnyInit /\ [][Locate]_vars

\* silhouetteApprox (App.tsx 2415-2437) on matrices of up to MaxSilRows rows
\* as parseCSV gives them, labels in range and 2 or 3 centroids
MaxSilRows == 2

SilRows == RowPool \cup {<<NaNCell, 0>>}

SilCentroids == {RowCopy(<<0, 0>>), RowCopy(<<3, 0>>), [num |-> <<3, 4>>, den |-> 2],
                 [num |-> <<1, 0>>, den |-> 2]}

SilInit ==
  /\ NoRun
  /\ fnOut = null
  /\ \E n \in 0..MaxSilRows, k \in 2..3 :
       fnArg \in {Some([fn |-> "silhouette", mat |-> SeqOf(f, n), labels |-> SeqOf(l, n),
                        centroids |-> SeqOf(c, k)]) :
                    f \in [1..n -> SilRows], l \in [1..n -> 0..(k - 1)],
                    c \in [1..k -> SilCentroids]}

Score ==
  /\ fnOut = null
  /\ fnArg[1].fn = "silhouette"
  /\ fnOut' = Some(silhouetteApprox(fnArg[1].mat, fnArg[1].labels, fnArg[1].centroids))
  /\ UNCHANGED <<appVars, runVars, callVars, orderVars, fnArg, heapVars>>

SpecSil == SilInit /\ [][Score]_vars

\* loadCsv from the text of the file to the state it sets (App.tsx 218-242),
\* on files of up to MaxLines lines.  A line is the sequence of its cells
\* between commas; the empty line is the line of one empty cell.
MaxLines == 2

Cells == {"", "x", "0", "1", "3"}

LineLengths == {1, 10, 11}

\* a line of n cells: the cell c followed by zeros
Line(c, n) == [j \in 1..n |-> IF j = 1 THEN c ELSE "0"]

Lines == {Line(c, n) : c \in Cells, n \in LineLengths}

Files == UNION {{SeqOf(f, n) : f \in [1..n -> Lines]} : n \in 0..MaxLines}

\* Number(v) (App.tsx 69)
Number(v) ==
  CASE v = "" -> 0
    [] v = "0" -> 0
    [] v = "1" -> 1
    [] v = "3" -> 3
    [] OTHER -> NaNCell

\* text.trim() (App.tsx 67): the empty lines at both ends of the text go
RECURSIVE Trim(_)
Trim(text) ==
  IF text = <<>> THEN text
  ELSE IF Head(text) = <<"">> THEN Trim(Tail(text))
  ELSE IF text[Len(text)] = <<"">> THEN Trim(SubSeq(text, 1, Len(text) - 1))
  ELSE text

\* parseCSV (App.tsx 65-70); the empty text splits into one empty line
parseCSV(text) ==
  LET lines == IF Trim(text) = <<>> THEN <<<<"">>>> ELSE Trim(text)
  IN  [i \in 1..Len(lines) |-> [j \in 1..Len(lines[i]) |-> Number(lines[i][j])]]

\* the test of loadCsv (App.tsx 220)
ShapeOk(matrix) == ~(Len(matrix) = 0 \/ Len(matrix[1]) # 10)

\* what loadCsv sets: mat, rows and clusterSeed, or error with mat = null
loadCsv(text) ==
  LET matrix == parseCSV(text)
  IN  IF ShapeOk(matrix)
      THEN [mat |-> Some(matrix), rows |-> Len(matrix),
            clusterSeed |-> Some(hashMatrixForSeed(matrix)), error |-> null]
      ELSE [mat |-> null, rows |-> 0, clusterSeed |-> null,
            error |-> Some("CSV must be N x 10 (no header).")]

LoadInit ==
  /\ NoRun
  /\ fnOut = null
  /\ fnArg \in {Some([fn |-> "load", text |-> f]) : f \in Files}

Load ==
  /\ fnOut = null
  /\ fnArg[1].fn = "load"
  /\ fnOut' = Some(loadCsv(fnArg[1].text))
  /\ UNCHANGED <<appVars, runVars, callVars, orderVars, fnArg, heapVars>>

SpecLoad == LoadInit /\ [][Load]_vars

\* hashMatrixForSeed (App.tsx 2389-2408) stepped one sampled row at a time on
\* two matrices of the same number of rows, MaxRows or HashRowCount.  The cells
\* are in ten-thousandths, so that values of equal Math.round(v * 1000) exist.
HashRowCount == 256

\* 0, 0.0004, 0.0006, 0.001 and 1
HashCellValues == {0, 4, 6, 10, 10000}

\* the all-zero matrix of n rows of two cells with the cell c in row r (0-based)
Marked(n, r, c) == [i \in 1..n |-> IF i = r + 1 THEN <<c, 0>> ELSE <<0, 0>>]

HashMatrices(n) == {Marked(n, r, c) : r \in {0, 1, 2, n - 1}, c \in HashCellValues}

\* Math.round(row[j] * 1000) of a cell in ten-thousandths: halves go up
Round1000(c) == (c + 5) \div 10

\* variant: every row is hashed
EveryRow(n) == 1

\* step = Math.max(1, Math.floor(N / 128)) (App.tsx 2392)
SampleStep(n) == Max(1, n \div 128)

\* the inner loop (App.tsx 2395-2404) on a row of cells in ten-thousandths
RECURSIVE HashCells(_, _, _)
HashCells(h, row, j) ==
  IF j = 0 THEN h
  ELSE LET g == HashCells(h, row, j - 1)
       IN  IF g[1] >= 0 THEN HashValue(g, Round1000(row[j])) ELSE g

\* (h >>> 0) & 0x7fffffff (App.tsx 2407)
Positive31(h) == ((h[1] % 32768) * W16) + h[2]

HashInit ==
  /\ NoRun
  /\ fnOut = null
  /\ \E n \in {MaxRows, HashRowCount} :
       fnArg \in {Some([fn |-> "hash", a |-> ma, b |-> mb]) :
                    ma \in HashMatrices(n), mb \in HashMatrices(n)}

\* h, N and step are set and the loop starts at row 0 (App.tsx 2390-2393)
HashEnter ==
  /\ fnOut = null
  /\ fnArg[1].fn = "hash"
  /\ fnOut' = Some([i |-> 0, step |-> SampleStep(Len(fnArg[1].a)),
                    ha |-> FNV_OFFSET, hb |-> FNV_OFFSET, seeds |-> null])
  /\ UNCHANGED <<appVars, runVars, callVars, orderVars, fnArg, heapVars>>

\* one pass of the outer loop on each matrix (App.tsx 2393-2405)
HashStep ==
  /\ fnOut # null /\ fnArg[1].fn = "hash" /\ fnOut[1].seeds = null
  /\ fnOut[1].i < Len(fnArg[1].a)
  /\ LET rowa == fnArg[1].a[fnOut[1].i + 1]
         rowb == fnArg[1].b[fnOut[1].i + 1]
     IN  fnOut' = Some([fnOut[1] EXCEPT !.i = @ + fnOut[1].step,
                                       !.ha = HashCells(@, rowa, Len(rowa)),
                                       !.hb = HashCells(@, rowb, Len(rowb))])
  /\ UNCHANGED <<appVars, runVars, callVars, orderVars, fnArg, heapVars>>

\* the loop is left and the seeds are returned (App.tsx 2406-2407)
HashReturn ==
  /\ fnOut # null /\ fnArg[1].fn = "hash" /\ fnOut[1].seeds = null
  /\ fnOut[1].i >= Len(fnArg[1].a)
  /\ fnOut' = Some([fnOut[1] EXCEPT
                      !.seeds = Some([a |-> Positive31(fnOut[1].ha),
                                      b |-> Positive31(fnOut[1].hb)])])
  /\ UNCHANGED <<appVars, runVars, callVars, orderVars, fnArg, heapVars>>

HashNext ==
  \/ HashEnter
  \/ HashStep
  \/ HashReturn

SpecHash == HashInit /\ [][HashNext]_vars

(***************************************************************************)
(* Claims about the seed deriver (SpecHash)                                *)
(***************************************************************************)
\* the row indices 0, step, 2*step, ... with step = max(1, floor(n / 128))
SampledRows(n) == {i \in 0..(n - 1) : i % Max(1, n \div 128) = 0}

\* the cells of row i (0-based) of ma and mb have equal round(value * 1000)
SameQuantized(ma, mb, i) ==
  /\ Len(ma[i + 1]) = Len(mb[i + 1])
  /\ \A j \in 1..Len(ma[i + 1]) : Round1000(ma[i + 1][j]) = Round1000(mb[i + 1][j])

\* C18: two matrices of the same number of rows whose sampled rows have equal
\* round(value * 1000) get the same seed, whatever the rows not sampled hold.
C18_SeedOfSampledRows ==
  (fnOut # null /\ fnOut[1].seeds # null) =>
    ((\A i \in SampledRows(Len(fnArg[1].a)) : SameQuantized(fnArg[1].a, fnArg[1].b, i))
       => fnOut[1].seeds[1].a = fnOut[1].seeds[1].b)

\* two matrices get the same seed although one differs from the other in the
\* quantized value of a row not sampled and in the raw value of a sampled row
C18_Witness ==
  /\ fnOut # null /\ fnOut[1].seeds # null
  /\ fnOut[1].seeds[1].a = fnOut[1].seeds[1].b
  /\ \E i \in 0..(Len(fnArg[1].a) - 1) :
       i \notin SampledRows(Len(fnArg[1].a)) /\ ~SameQuantized(fnArg[1].a, fnArg[1].b, i)
  /\ \E i \in SampledRows(Len(fnArg[1].a)) : fnArg[1].a[i + 1] # fnArg[1].b[i + 1]

\* on whole numbers the steps give what the operator hashMatrixForSeed gives,
\* and sampled rows that differ after quantization give another seed
StepsAgreeOnHash ==
  (fnOut # null /\ fnOut[1].seeds # null) =>
    /\ (Len(fnArg[1].a) <= MaxRows
          /\ \A i \in 1..Len(fnArg[1].a) : fnArg[1].a[i][1] % 10000 = 0) =>
         fnOut[1].seeds[1].a =
           hashMatrixForSeed([i \in 1..Len(fnArg[1].a) |->
                                <<fnArg[1].a[i][1] \div 10000, 0>>])
    /\ (\E i \in SampledRows(Len(fnArg[1].a)) : ~SameQuantized(fnArg[1].a, fnArg[1].b, i))
         => fnOut[1].seeds[1].a # fnOut[1].seeds[1].b

\* two generators made by rngMulberry32 (App.tsx 2455-2463) and drawn from in
\* any interleaving, up to MaxDraws draws each.  A generator is the closure
\* variable s of its instance; drawn lists the words it has returned.
MaxDraws == 3

\* seeds over the 32-bit range: 0, 1, 7, KMEANS_SEED and the seed of its second
\* start, 2^31 - 1, -1 and -(2^31 - 1)
RngSeeds ==
  {0, 1, 7, KMEANS_SEED, KMEANS_SEED + 101, 2147483647, 0 - 1, 0 - 2147483647}

\* variant: one variable s shared by the instances
SharedS(gens, g) == gens[1].s

\* the variable s a generator reads and advances: that of its own closure
ClosureS(gens, g) == gens[g].s

RngInit ==
  /\ NoRun
  /\ fnOut = null
  /\ fnArg \in {Some([fn |-> "rng", seeds |-> <<s1, s2>>]) : s1 \in RngSeeds, s2 \in RngSeeds}

\* const rnd = rngMulberry32(initSeed), twice (App.tsx 2456, 2473)
MakeGenerators ==
  /\ fnOut = null
  /\ fnArg[1].fn = "rng"
  /\ fnOut' = Some([g \in 1..2 |-> [s |-> rngMulberry32(fnArg[1].seeds[g]), drawn |-> <<>>]])
  /\ UNCHANGED <<appVars, runVars, callVars, orderVars, fnArg, heapVars>>

\* rnd() on generator g (App.tsx 2457-2462)
Draw(g) ==
  /\ fnOut # null /\ fnArg[1].fn = "rng"
  /\ Len(fnOut[1][g].drawn) < MaxDraws
  /\ fnOut' = Some([fnOut[1] EXCEPT
                      ![g] = [s |-> RngNext(ClosureS(fnOut[1], g)),
                              drawn |-> Append(@.drawn, RngDraw(ClosureS(fnOut[1], g)))]])
  /\ UNCHANGED <<appVars, runVars, callVars, orderVars, fnArg, heapVars>>

RngSpecNext ==
  \/ MakeGenerators
  \/ \E g \in 1..2 : Draw(g)

SpecRng == RngInit /\ [][RngSpecNext]_vars

(***************************************************************************)
(* Claims about the seeded generator (SpecRng)                             *)
(***************************************************************************)
\* the word u, of two halves below 2^16, is the numerator of a float u / 2^32
\* in [0, 1), and Math.floor(u / 2^32 * m) is an index below m
InUnitInterval(u) ==
  /\ u[1] \in 0..(W16 - 1) /\ u[2] \in 0..(W16 - 1)
  /\ \A m \in 1..(MaxRows + 1) : FloorScale(u, m) \in 0..(m - 1)

\* the first n words of a generator made from the state s and used alone
RECURSIVE Alone(_, _)
Alone(s, n) == IF n = 0 THEN <<>> ELSE <<RngDraw(s)>> \o Alone(RngNext(s), n - 1)

\* C19: every value drawn is in [0, 1); two generators made from the same
\* seed give the same sequence; and in every interleaving of the draws a
\* generator gives the sequence it gives when it is used alone.
C19_SeededGenerator ==
  fnOut # null =>
    /\ \A g \in 1..2 : \A k \in 1..Len(fnOut[1][g].drawn) : InUnitInterval(fnOut[1][g].drawn[k])
    /\ fnArg[1].seeds[1] = fnArg[1].seeds[2] =>
         \A k \in 1..Min(Len(fnOut[1][1].drawn), Len(fnOut[1][2].drawn)) :
            fnOut[1][1].drawn[k] = fnOut[1][2].drawn[k]
    /\ \A g \in 1..2 :
         fnOut[1][g].drawn = Alone(ToWord(fnArg[1].seeds[g]), Len(fnOut[1][g].drawn))

\* two generators of the same seed, one two draws ahead of the other, whose
\* words differ from draw to draw
C19_Witness ==
  /\ fnOut # null
  /\ fnArg[1].seeds[1] = fnArg[1].seeds[2]
  /\ Len(fnOut[1][1].drawn) = MaxDraws /\ Len(fnOut[1][2].drawn) = MaxDraws - 2
  /\ fnOut[1][1].drawn[1] # fnOut[1][1].drawn[2]

\* recommendForMember (App.tsx 72-93) on one-row matrices and the empty one.
\* Scores are whole numbers or NaNCell; a ranking is a sequence of column
\* numbers 1..10, the object { cat, s } of column j being CATEGORY_NAMES[j]
\* with the score row[j].
MaxTopK == 10

Thresholds == {0, 3, 100}

RecRows ==
  {<<5, 3, 9, 3, 0, 9, 1, 0, 3, 2>>,
   <<0, 0, 0, 0, 0, 0, 0, 0, 0, 0>>,
   <<1, 2, 3, 4, 5, 6, 7, 8, 9, 10>>,
   <<9, 9, 7, 7, 5, 5, 3, 3, 1, 1>>,
   <<3, NaNCell, 5, 0, 0, 0, 0, 0, 0, 0>>}

\* comparefn(a, b) < 0 for (a, b) => b.s - a.s on the columns x and y of a
\* row: false when the difference is NaN, which sort takes as 0
Negative(row, x, y) == row[x] # NaNCell /\ row[y] # NaNCell /\ row[y] - row[x] < 0

\* comparefn(a, b) > 0
Positive(row, x, y) == row[x] # NaNCell /\ row[y] # NaNCell /\ row[y] - row[x] > 0

\* Array.prototype.sort by insertion: each element moves left past the
\* elements the comparator puts after it
RECURSIVE InsertFrom(_, _, _, _)
InsertFrom(row, a, e, j) ==
  IF j > 0 /\ Positive(row, a[j], e) THEN InsertFrom(row, a, e, j - 1) ELSE j

RECURSIVE InsertionSort(_, _, _)
InsertionSort(row, a, i) ==
  IF i > Len(a) THEN a
  ELSE LET p == InsertFrom(row, a, a[i], i - 1)
       IN  InsertionSort(row,
             SubSeq(a, 1, p) \o <<a[i]>> \o SubSeq(a, p + 1, i - 1) \o SubSeq(a, i + 1, Len(a)),
             i + 1)

\* Array.prototype.sort by a first run and binary insertion (arrays shorter
\* than 64): the length of the run that starts the array
RECURSIVE RunLength(_, _, _, _)
RunLength(row, a, descending, k) ==
  IF k > Len(a) THEN Len(a)
  ELSE IF descending = Negative(row, a[k], a[k - 1]) THEN RunLength(row, a, descending, k + 1)
  ELSE k - 1

Reversed(a) == [i \in 1..Len(a) |-> a[Len(a) + 1 - i]]

\* the 0-based place of the pivot e among a[1..n] by bisection
RECURSIVE Bisect(_, _, _, _, _)
Bisect(row, a, e, left, right) ==
  IF left >= right THEN left
  ELSE LET mid == left + ((right - left) \div 2)
       IN  IF Negative(row, e, a[mid + 1]) THEN Bisect(row, a, e, left, mid)
           ELSE Bisect(row, a, e, mid + 1, right)

RECURSIVE BinaryInsertion(_, _, _)
BinaryInsertion(row, a, i) ==
  IF i > Len(a) THEN a
  ELSE LET p == Bisect(row, a, a[i], 0, i - 1)
       IN  BinaryInsertion(row,
             SubSeq(a, 1, p) \o <<a[i]>> \o SubSeq(a, p + 1, i - 1) \o SubSeq(a, i + 1, Len(a)),
             i + 1)

RunSort(row, a) ==
  IF Len(a) < 2 THEN a
  ELSE LET descending == Negative(row, a[2], a[1])
           n == RunLength(row, a, descending, 3)
           run == IF descending
                  THEN Reversed(SubSeq(a, 1, n)) \o SubSeq(a, n + 1, Len(a))
                  ELSE a
       IN  BinaryInsertion(row, run, n + 1)

\* the sorting methods of the engines.  On scores that are numbers the
\* comparator is consistent and both give the one stable order; with a NaN
\* score the order is implementation-defined.
SortMethods == {"insertion", "run"}

\* rankCategories (App.tsx 72-76): the columns in the order of the sort
rankCategories(scores, method) ==
  LET idx == [j \in 1..Len(scores) |-> j]
  IN  IF method = "insertion" THEN InsertionSort(scores, idx, 2) ELSE RunSort(scores, idx)

\* ranked.filter((r) => r.s >= minThreshold)
RECURSIVE Filtered(_, _, _, _)
Filtered(scores, ranked, th, k) ==
  IF k > Len(ranked) THEN <<>>
  ELSE (IF scores[ranked[k]] # NaNCell /\ scores[ranked[k]] >= th THEN <<ranked[k]>> ELSE <<>>)
         \o Filtered(scores, ranked, th, k + 1)

\* (filtered.length ? filtered : ranked).slice(0, topK) (App.tsx 90-91)
Chosen(scores, ranked, th, k) ==
  LET filtered == Filtered(scores, ranked, th, 1)
      from == IF Len(filtered) # 0 THEN filtered ELSE ranked
  IN  SubSeq(from, 1, Min(k, Len(from)))

\* the value returned, or the message of the Error thrown
recommendForMember(M, mi, k, th, method) ==
  IF Len(M) = 0 THEN [error |-> "Matrix is empty"]
  ELSE IF Len(M[1]) # 10 THEN [error |-> "Expected 10 columns"]
  ELSE IF mi < 0 \/ mi >= Len(M) THEN [error |-> "memberIndex out of range"]
  ELSE LET scores == M[mi + 1]
           chosen == Chosen(scores, rankCategories(scores, method), th, k)
       IN  [value |-> [n \in 1..Len(chosen) |->
                         <<CATEGORY_NAMES[chosen[n]], scores[chosen[n]]>>]]

RecommendInit ==
  /\ NoRun
  /\ fnOut = null
  /\ fnArg \in {Some([fn |-> "recommend", mat |-> M, memberIndex |-> i, topK |-> k,
                       minThreshold |-> th]) :
                  M \in {<<>>} \cup {<<r>> : r \in RecRows}, i \in 0..1, k \in 1..MaxTopK,
                  th \in Thresholds}

Recommend(method) ==
  /\ fnOut = null
  /\ fnArg[1].fn = "recommend"
  /\ fnOut' = Some(recommendForMember(fnArg[1].mat, fnArg[1].memberIndex, fnArg[1].topK,
                                      fnArg[1].minThreshold, method))
  /\ UNCHANGED <<appVars, runVars, callVars, orderVars, fnArg, heapVars>>

RecommendNext == \E method \in SortMethods : Recommend(method)

SpecRecommend == RecommendInit /\ [][RecommendNext]_vars

\* ---------------------------------------------------------------------------
\* Member Profile: the inputs of a recommendation and the effect that clears
\* it (App.tsx 158-161, 316-331, 455-495)

TopKs == {1, 3}
ProfileThresholds == {0, 1}
MaxMember == 2

\* a dependency list that misses topK
DepsWithoutTopK == <<memberIndex, minThreshold>>

\* the dependency list of the effect (App.tsx 319)
RecsDeps == <<memberIndex, topK, minThreshold>>

\* a render with a changed dependency schedules the effect (App.tsx 317-319)
Scheduled == effect' = (effect \/ RecsDeps' # RecsDeps)

\* the member select (App.tsx 464): its options are the rows of the matrix
SetMemberIndex(i) ==
  /\ ~effect
  /\ i < rows
  /\ memberIndex' = i
  /\ UNCHANGED <<mat, rows, loading, error, clusterSeed, elbow, clusterLabels, centroids,
                 segmentNames, selectedCluster, selectionMethod, silMinGap, computing,
                 didLoad, inflight, lastCall, nSweeps, supplied, used,
                 topK, minThreshold, recs, recsOf, runVars, callVars, orderVars, fnVars, heapVars>>
  /\ Scheduled

\* the Top K input (App.tsx 484)
SetTopK(k) ==
  /\ ~effect
  /\ topK' = k
  /\ UNCHANGED <<mat, rows, loading, error, clusterSeed, elbow, clusterLabels, centroids,
                 segmentNames, selectedCluster, selectionMethod, silMinGap, computing,
                 didLoad, inflight, lastCall, nSweeps, supplied, used,
                 memberIndex, minThreshold, recs, recsOf, runVars, callVars, orderVars,
                 fnVars, heapVars>>
  /\ Scheduled

\* the Min Threshold input (App.tsx 488)
SetMinThreshold(th) ==
  /\ ~effect
  /\ minThreshold' = th
  /\ UNCHANGED <<mat, rows, loading, error, clusterSeed, elbow, clusterLabels, centroids,
                 segmentNames, selectedCluster, selectionMethod, silMinGap, computing,
                 didLoad, inflight, lastCall, nSweeps, supplied, used,
                 memberIndex, topK, recs, recsOf, runVars, callVars, orderVars, fnVars, heapVars>>
  /\ Scheduled

\* the effect body (App.tsx 318)
RunEffect ==
  /\ effect
  /\ effect' = FALSE
  /\ recs' = null /\ recsOf' = null
  /\ UNCHANGED <<mat, rows, loading, error, clusterSeed, elbow, clusterLabels, centroids,
                 segmentNames, selectedCluster, selectionMethod, silMinGap, computing,
                 didLoad, inflight, lastCall, nSweeps, supplied, used,
                 memberIndex, topK, minThreshold, runVars, callVars, orderVars, fnVars, heapVars>>

\* the Get Recommendation button (App.tsx 323-331; disabled={!mat || loading}, 491)
onRecommend(method) ==
  /\ ~effect
  /\ mat # null /\ ~loading
  /\ LET r == recommendForMember(mat[1], memberIndex, topK, minThreshold, method)
     IN  IF "error" \in DOMAIN r
         THEN error' = Some(r.error) /\ UNCHANGED <<recs, recsOf>>
         ELSE recs' = Some(r.value) /\ recsOf' = Some(RecsDeps) /\ UNCHANGED error
  /\ UNCHANGED <<mat, rows, loading, clusterSeed, elbow, clusterLabels, centroids,
                 segmentNames, selectedCluster, selectionMethod, silMinGap, computing,
                 didLoad, inflight, lastCall, nSweeps, supplied, used,
                 memberIndex, topK, minThreshold, effect, runVars, callVars, orderVars,
                 fnVars, heapVars>>

ProfileNext ==
  \/ Mount(null, null, null)
  \/ Retry
  \/ \E di \in 1..Len(Datasets) : LoadOk(di)
  \/ \E msg \in LoadErrors : LoadFails(msg)
  \/ \E i \in 0..MaxMember : SetMemberIndex(i)
  \/ \E k \in TopKs : SetTopK(k)
  \/ \E th \in ProfileThresholds : SetMinThreshold(th)
  \/ RunEffect
  \/ \E method \in SortMethods : onRecommend(method)

SpecProfile == Init /\ [][ProfileNext]_vars

\* C23: recommendations on screen, once the pending effect has run, are those
\* of a Get Recommendation click made with the current memberIndex, topK and
\* minThreshold; any change to one of the three schedules the effect, and the
\* effect clears them.
C23_NoStaleRecommendations ==
  /\ []((recs # null /\ ~effect) =>
          /\ recsOf = Some(<<memberIndex, topK, minThreshold>>)
          /\ mat # null
          /\ \E method \in SortMethods :
               recs = Some(recommendForMember(mat[1], memberIndex, topK, minThreshold,
                                              method).value))
  /\ [][(<<memberIndex, topK, minThreshold>>' # <<memberIndex, topK, minThreshold>>) =>
          effect']_vars
  /\ [][(effect /\ ~effect') => recs' = null]_vars

C23_Witness ==
  /\ recs # null /\ ~effect
  /\ memberIndex = 1 /\ topK = 1 /\ minThreshold = 1
  /\ Len(recs[1]) = 1

(***************************************************************************)
(* Claims about the recommendation (SpecRecommend)                         *)
(***************************************************************************)
\* the column of a category name
ColumnOf(cat) == CHOOSE j \in 1..10 : CATEGORY_NAMES[j] = cat

\* the pair x is ranked before the pair y: greater score, or equal score and
\* earlier category
RankedBefore(x, y) ==
  /\ x[2] # NaNCell /\ y[2] # NaNCell
  /\ x[2] > y[2] \/ (x[2] = y[2] /\ ColumnOf(x[1]) < ColumnOf(y[1]))

\* the pairs of all columns of a row, and those that reach the threshold
Pairs(row) == {<<CATEGORY_NAMES[j], row[j]>> : j \in 1..10}

Passing(row, th) == {x \in Pairs(row) : x[2] # NaNCell /\ x[2] >= th}

\* v lists the first n pairs of the set S in ranking order
FirstOf(v, S, n) ==
  /\ Len(v) = n
  /\ \A k \in 1..Len(v) : v[k] \in S
  /\ \A k \in 1..(Len(v) - 1) : RankedBefore(v[k], v[k + 1])
  /\ \A x \in S : (\A k \in 1..Len(v) : v[k] # x) => \A k \in 1..Len(v) : RankedBefore(v[k], x)

\* what the claim says of a call with the row given, topK k and threshold th
Recommended(v, row, k, th) ==
  IF Passing(row, th) # {}
  THEN FirstOf(v, Passing(row, th), Min(k, Cardinality(Passing(row, th))))
  ELSE FirstOf(v, Pairs(row), k)

\* the arguments are those of the claim: a matrix with rows, an index in range
InClaim(arg) == Len(arg.mat) > 0 /\ arg.memberIndex < Len(arg.mat) /\ arg.topK \in 1..10

\* C22: for a non-empty N x 10 matrix, an index in range and topK in 1..10,
\* recommendForMember returns the categories in descending score order, equal
\* scores in category order: the first min(topK, p) of the p >= 1 categories
\* that reach minThreshold, or the first topK of all when none does.
C22_Recommendation ==
  (fnOut # null /\ InClaim(fnArg[1])) =>
    /\ "value" \in DOMAIN fnOut[1]
    /\ Recommended(fnOut[1].value, fnArg[1].mat[fnArg[1].memberIndex + 1],
                   fnArg[1].topK, fnArg[1].minThreshold)

\* what does hold: the same, for rows whose scores are all numbers
RecommendationOfNumbers ==
  (fnOut # null /\ InClaim(fnArg[1])
     /\ ~HasNaN(fnArg[1].mat[fnArg[1].memberIndex + 1])) =>
    /\ "value" \in DOMAIN fnOut[1]
    /\ Recommended(fnOut[1].value, fnArg[1].mat[fnArg[1].memberIndex + 1],
                   fnArg[1].topK, fnArg[1].minThreshold)

(***************************************************************************)
(* Claims about the loader (SpecLoad)                                      *)
(***************************************************************************)
\* every row has the length of the first
Uniform(matrix) == \A i \in 1..Len(matrix) : Len(matrix[i]) = Len(matrix[1])

\* C16: a matrix that is empty or whose rows do not all have the same length
\* is rejected with an error, and no seed is derived from it: whatever loadCsv
\* accepts and derives a seed from is non-empty with rows of one length.
C16_InvalidInputRejected ==
  (fnOut # null /\ fnOut[1].mat # null) =>
    /\ Len(fnOut[1].mat[1]) > 0
    /\ Uniform(fnOut[1].mat[1])

\* what does hold: the accepted matrix has a first row of 10 cells, and a
\* rejected file leaves an error and no matrix or seed
FirstRowChecked ==
  fnOut # null =>
    IF fnOut[1].mat # null
    THEN Len(fnOut[1].mat[1]) > 0 /\ Len(fnOut[1].mat[1][1]) = 10 /\ fnOut[1].error = null
    ELSE fnOut[1].error # null /\ fnOut[1].clusterSeed = null

\* the empty file is rejected
EmptyFileRejected ==
  (fnOut # null /\ Trim(fnArg[1].text) = <<>>) => fnOut[1].mat = null

\* a file with a cell that is not a number is accepted
NaNAccepted ==
  fnOut # null /\ fnOut[1].mat # null /\ HasNaN(fnOut[1].mat[1][1])

(***************************************************************************)
(* Claims about the silhouette approximator (SpecSil)                      *)
(***************************************************************************)
\* the value is a number between -1 and 1 (in thousandths)
InBounds(v) == v # NaN /\ v[1] >= 0 - v[2] /\ v[1] <= v[2]

\* C13: for every matrix, labels in range and at least 2 centroids,
\* silhouetteApprox returns v with -1 <= v <= 1, and 0 for an empty matrix.
C13_SilhouetteBound ==
  fnOut # null =>
    /\ InBounds(fnOut[1])
    /\ Len(fnArg[1].mat) = 0 => fnOut[1][1] = 0

\* what does hold: the bound, when every cell of the matrix is a number
SilhouetteOfNumbers ==
  (fnOut # null /\ \A i \in 1..Len(fnArg[1].mat) : ~HasNaN(fnArg[1].mat[i])) =>
    /\ InBounds(fnOut[1])
    /\ Len(fnArg[1].mat) = 0 => fnOut[1][1] = 0

\* a and b of row i: the distance to its own centroid and the least distance
\* to another one
OwnDistance(i) == dist(fnArg[1].mat[i], fnArg[1].centroids[fnArg[1].labels[i] + 1])

OtherDistance(i) ==
  LET ds == {dist(fnArg[1].mat[i], fnArg[1].centroids[c]) :
               c \in (1..Len(fnArg[1].centroids)) \ {fnArg[1].labels[i] + 1}}
  IN  CHOOSE d \in ds : \A e \in ds : d <= e

\* the mean of per-row scores (b - a) / den(a, b), NaN when a cell is
MeanWith(den(_, _)) ==
  LET n == Len(fnArg[1].mat)
      score(i) == ((OtherDistance(i) - OwnDistance(i)) * 1000)
                    \div den(OwnDistance(i), OtherDistance(i))
      RECURSIVE total(_)
      total(i) == IF i = 0 THEN 0 ELSE score(i) + total(i - 1)
  IN  IF \E i \in 1..n : HasNaN(fnArg[1].mat[i]) THEN NaN
      ELSE <<total(n) \div n, 1000>>

FlooredAtOne(a, b) == Max(Max(a, b), 100)

FlooredWhenZero(a, b) == Max(a, IF b = 0 THEN 100 ELSE b)

\* C24: the per-row score of silhouetteApprox is (b - a) / max(a, b, 1), and
\* the value returned is the mean of the per-row scores.
C24_SilhouetteFormula ==
  (fnOut # null /\ Len(fnArg[1].mat) > 0) => fnOut[1] = MeanWith(FlooredAtOne)

\* C24 as the code has it: the per-row score is (b - a) / max(a, b'), where b'
\* is 1 when b is 0 and b otherwise, and the value returned is the mean.
C24_FloorOnlyAtZero ==
  (fnOut # null /\ Len(fnArg[1].mat) > 0) => fnOut[1] = MeanWith(FlooredWhenZero)

\* a scored matrix with a row whose a and b are both below 1 and b is not 0
C24_Witness ==
  /\ fnOut # null /\ fnOut[1] # NaN
  /\ \E i \in 1..Len(fnArg[1].mat) :
       /\ OtherDistance(i) > 0 /\ OtherDistance(i) < 100
       /\ OwnDistance(i) < 100

(***************************************************************************)
(* Claims about the elbow locator (SpecElbow)                              *)
(***************************************************************************)
\* the inertia array holds numbers only
AllNumbers(inr) == \A i \in 1..Len(inr) : inr[i] # NaN

\* C12: for ks of length >= 3 and an inertia array of the same length,
\* suggestElbow returns an element of ks that is neither the first nor the
\* last element of ks.
C12_ElbowInterior ==
  fnOut # null =>
    \E i \in 2..(Len(fnArg[1].ks) - 1) : fnOut[1] = fnArg[1].ks[i]

\* what does hold: the elbow is interior when no inertia is NaN, and it is
\* the first element of ks when the first inertia is NaN
ElbowOfNumbers ==
  /\ (fnOut # null /\ AllNumbers(fnArg[1].inertia)) =>
       \E i \in 2..(Len(fnArg[1].ks) - 1) : fnOut[1] = fnArg[1].ks[i]
  /\ (fnOut # null /\ fnArg[1].inertia[1] = NaN) => fnOut[1] = fnArg[1].ks[1]

\* the point (ks[i], inertia[i]) has a distance to the line through the first
\* and the last point: none of the three inertias is NaN
HasDistance(i) ==
  /\ fnArg[1].inertia[1] # NaN /\ fnArg[1].inertia[Len(fnArg[1].ks)] # NaN
  /\ fnArg[1].inertia[i] # NaN

\* that distance times the length of the line, for inertias that are integers
Distance(i) ==
  LET ks == fnArg[1].ks
      y(j) == fnArg[1].inertia[j][1]
      n == Len(ks)
      dx == ks[n] - ks[1]
      dy == y(n) - y(1)
  IN  Abs((dy * ks[i]) - (dx * y(i)) + (ks[n] * y(1)) - (y(n) * ks[1]))

\* ks[i] is the smallest interior K of greatest distance; a point without a
\* distance is not compared
GreatestDistance(i) ==
  /\ i \in 2..(Len(fnArg[1].ks) - 1)
  /\ HasDistance(i)
  /\ \A j \in 2..(Len(fnArg[1].ks) - 1) :
       HasDistance(j) =>
         /\ Distance(j) <= Distance(i)
         /\ j < i => Distance(j) < Distance(i)

\* C27: for ks and inertia of equal length >= 3, suggestElbow returns the
\* interior K whose point is farthest from the line through the first and the
\* last point, the smallest such K when several are; for fewer than 3
\* candidates it returns ks[floor(length / 2)].
C27_ElbowChoice ==
  fnOut # null =>
    IF Len(fnArg[1].ks) < 3
    THEN fnOut[1] = fnArg[1].ks[(Len(fnArg[1].ks) \div 2) + 1]
    ELSE \E i \in 2..(Len(fnArg[1].ks) - 1) :
           fnOut[1] = fnArg[1].ks[i] /\ GreatestDistance(i)

\* what does hold: the claim, when an interior point has a distance; and the
\* first element of ks when none has
ElbowChoiceOfNumbers ==
  fnOut # null =>
    IF Len(fnArg[1].ks) < 3
    THEN fnOut[1] = fnArg[1].ks[(Len(fnArg[1].ks) \div 2) + 1]
    ELSE IF \E j \in 2..(Len(fnArg[1].ks) - 1) : HasDistance(j)
    THEN \E i \in 2..(Len(fnArg[1].ks) - 1) :
           fnOut[1] = fnArg[1].ks[i] /\ GreatestDistance(i)
    ELSE fnOut[1] = fnArg[1].ks[1]

(***************************************************************************)
(* Claims about the K-selection policy (SpecSelect)                        *)
(***************************************************************************)
\* silhouette[k] of the sweep the selection was made on
SilAt(k) == fnArg[1].sw.silhouette[k - 1]

\* silhouette[bestBySil] - silhouette[suggestedK] >= minGap, in thousandths
GapMet(e) ==
  (SilAt(e.bestBySil)[1] - SilAt(e.suggestedK)[1]) * fnArg[1].minGap[2]
    >= fnArg[1].minGap[1] * 1000

\* C11: finalK is bestBySil under silhouette, suggestedK under elbow; under
\* compromise it is the smaller of the two when they differ by at most 1,
\* else bestBySil when its silhouette exceeds that of suggestedK by minGap
\* or more and suggestedK when not; finalK is always one of the swept K.
C11_SelectionPolicy ==
  fnOut # null =>
    LET e == fnOut[1]
        m == fnArg[1].method
    IN  /\ m = "silhouette" => e.finalK = e.bestBySil
        /\ m = "elbow" => e.finalK = e.suggestedK
        /\ (m = "compromise" /\ e.suggestedK - e.bestBySil \in -1..1)
             => e.finalK = (IF e.suggestedK < e.bestBySil THEN e.suggestedK ELSE e.bestBySil)
        /\ (m = "compromise" /\ e.suggestedK - e.bestBySil \notin -1..1)
             => e.finalK = (IF GapMet(e) THEN e.bestBySil ELSE e.suggestedK)
        /\ \E i \in 1..Len(e.ks) : e.ks[i] = e.finalK

\* compromise picks bestBySil, more than 1 away from suggestedK and larger
C11_Witness ==
  /\ fnOut # null /\ fnArg[1].method = "compromise"
  /\ fnOut[1].bestBySil - fnOut[1].suggestedK > 1
  /\ GapMet(fnOut[1])
  /\ fnOut[1].finalK = fnOut[1].bestBySil

\* silhouette[hi] - silhouette[lo] >= minGap, in thousandths
Exceeds(hi, lo) ==
  (SilAt(hi)[1] - SilAt(lo)[1]) * fnArg[1].minGap[2] >= fnArg[1].minGap[1] * 1000

\* C25: under compromise, when suggestedK and bestBySil differ, finalK is the
\* larger of the two only if the silhouette of the larger exceeds that of the
\* smaller by at least minGap, and the smaller of the two in all other cases.
C25_Conservative ==
  (fnOut # null /\ fnArg[1].method = "compromise"
     /\ fnOut[1].suggestedK # fnOut[1].bestBySil) =>
    LET lo == Min(fnOut[1].suggestedK, fnOut[1].bestBySil)
        hi == Max(fnOut[1].suggestedK, fnOut[1].bestBySil)
    IN  /\ fnOut[1].finalK = hi => Exceeds(hi, lo)
        /\ fnOut[1].finalK # hi => fnOut[1].finalK = lo

\* C25 as the code has it: finalK is the smaller of the two when they differ
\* by 1; when they differ by more, it is bestBySil if its silhouette exceeds
\* that of suggestedK by at least minGap and suggestedK if not, whichever of
\* the two is the larger.  So finalK is the larger only if the two are more
\* than 1 apart and either the larger is bestBySil and the gap is met, or the
\* larger is suggestedK and the gap is not met.
C25_ElbowUnlessGap ==
  (fnOut # null /\ fnArg[1].method = "compromise"
     /\ fnOut[1].suggestedK # fnOut[1].bestBySil) =>
    LET sK == fnOut[1].suggestedK
        bS == fnOut[1].bestBySil
        lo == Min(sK, bS)
        hi == Max(sK, bS)
    IN  /\ fnOut[1].finalK \in {lo, hi}
        /\ fnOut[1].finalK = hi <=>
             /\ hi - lo > 1
             /\ \/ hi = bS /\ Exceeds(bS, sK)
                \/ hi = sK /\ ~Exceeds(bS, sK)

\* compromise keeps suggestedK, the larger of the two, more than 1 above
\* bestBySil whose silhouette is higher by less than minGap
C25_Witness ==
  /\ fnOut # null /\ fnArg[1].method = "compromise"
  /\ fnOut[1].suggestedK - fnOut[1].bestBySil > 1
  /\ SilAt(fnOut[1].bestBySil)[1] > SilAt(fnOut[1].suggestedK)[1]
  /\ ~Exceeds(fnOut[1].bestBySil, fnOut[1].suggestedK)
  /\ fnOut[1].finalK = fnOut[1].suggestedK

(***************************************************************************)
(* Claims about repeated invocations (SpecCalls)                           *)
(***************************************************************************)
\* C1: an invocation of kmeans with the arguments of a remembered earlier
\* invocation ends with the same outcome: identical labels, centroids and
\* inertia, whatever was invoked in between.
C1_Deterministic ==
  (pc \in {"done", "thrown"} /\ memo # null /\ memo[1].args = Args)
    => Outcome = memo[1].outcome

\* the remembered arguments are invoked again after an invocation with
\* other arguments, with more than one start
C1_Witness ==
  /\ pc = "done" /\ memo # null /\ memo[1].args = Args
  /\ memo[1].at < ncalls - 1
  /\ call # null /\ call[1] # Args
  /\ nInit > 1 /\ K > 1

(***************************************************************************)
(* Claims about the reductions in any order (SpecAnyOrder)                 *)
(***************************************************************************)
Ascending(sq, from) == \A i \in 1..Len(sq) : sq[i] = from + i - 1

\* the sweep arrays of the sequential loop, up to MaxSweepK
SequentialArrays ==
  [ks |-> SubSeq(SweepOf(input, seed).ks, 1, MaxSweepK - 1),
   inertia |-> SubSeq(SweepOf(input, seed).inertia, 1, MaxSweepK - 1),
   silhouette |-> SubSeq(SweepOf(input, seed).silhouette, 1, MaxSweepK - 1)]

FirstLeast ==
  CHOOSE i \in 1..Len(order) :
    /\ \A j \in 1..Len(order) : ~Less(Trial(order[j]).inertia, Trial(order[i]).inertia)
    /\ \A j \in 1..(i - 1) : Less(Trial(order[i]).inertia, Trial(order[j]).inertia)

C3_GuardReleased == lastCall \in {"finished", "threw"} => ~computing

\* C4: while computing is set no sweep starts and the sweep result, the
\* labels, the centroids, the segment names and computing keep their values,
\* whatever is requested.
C4_SingleFlight ==
  [][computing =>
       UNCHANGED <<elbow, clusterLabels, centroids, segmentNames, computing, nSweeps>>]_vars

\* a compute request was made while computing was set
C4_Witness == computing /\ lastCall = "dropped" /\ nSweeps > 0

NoSegments ==
  elbow = null /\ clusterLabels = null /\ centroids = null /\ segmentNames = null

NoResultBeforeLoad == (inflight \/ mat = null) => NoSegments

\* C28: the sweep result, the labels, the centroids and the segment names are
\* all absent, or all present and consistent: ks is 2..10 with an inertia and
\* a silhouette for each, there are finalK centroids and finalK names, one
\* label per row of the matrix, each below finalK, and the selected cluster
\* is below finalK.
C28_NeverPartial ==
  \/ NoSegments
  \/ /\ elbow # null /\ clusterLabels # null /\ centroids # null /\ segmentNames # null
     /\ mat # null
     /\ elbow[1].ks = <<2, 3, 4, 5, 6, 7, 8, 9, 10>>
     /\ Len(elbow[1].inertia) = 9 /\ Len(elbow[1].silhouette) = 9
     /\ Len(centroids[1]) = elbow[1].finalK
     /\ Len(segmentNames[1]) = elbow[1].finalK
     /\ Len(clusterLabels[1]) = Len(mat[1])
     /\ \A i \in 1..Len(clusterLabels[1]) :
          clusterLabels[1][i] >= 0 /\ clusterLabels[1][i] < elbow[1].finalK
     /\ selectedCluster >= 0 /\ selectedCluster < elbow[1].finalK

\* a second result, of a method that chose fewer segments than bestBySil,
\* with the selection at 0 and more than one segment in use
C28_Witness ==
  /\ elbow # null /\ nSweeps = 2
  /\ elbow[1].finalK < elbow[1].bestBySil
  /\ selectedCluster = 0
  /\ clusterLabels # null /\ \E i \in 1..Len(clusterLabels[1]) : clusterLabels[1][i] = 1

\* C29: while the load started last is pending loading is true, and once it
\* has succeeded the matrix is set, loading is false and error is null.
C29_OverlappingLoads ==
  /\ inflight => loading
  /\ mat # null => (~inflight /\ ~loading /\ error = null)

\* the first half of C29 alone
LoadingWhilePending == inflight => loading

\* the second half of C29 alone
NoErrorAfterSuccess == mat # null => error = null

\* what does hold: the aborted load sets no matrix; the matrix is that of the
\* load started last, and loading is false once it has finished
NewerLoadWins ==
  /\ [][(inflight /\ inflight') => mat' = null]_vars
  /\ [](mat # null => (~inflight /\ ~loading))

\* C14: a sweep run after the caller supplied a seed (the seed parameter of the
\* URL at start-up, or the seed input) is computed with the supplied seed
C14_SuppliedSeedHonoured ==
  (used # null /\ used[1].supplied # null) => used[1].seed = used[1].supplied[1]

\* a sweep has run with the seed typed into the seed input after the load
SeedInputHonoured ==
  used # null /\ used[1].supplied # null /\ used[1].seed = used[1].supplied[1]
    /\ used[1].seed \notin {DatasetSeeds[di] : di \in 1..Len(Datasets)}

\* C15: while a sweep result is present, the method, seed and minimum gap shown
\* with it and persisted in the URL (App.tsx 263-272, 1710-1722, 1745) are the
\* ones the result was computed with
C15_TripleRetrievable ==
  elbow # null =>
    /\ used # null
    /\ used[1].method = selectionMethod
    /\ used[1].seed = clusterSeed
    /\ used[1].minGap = silMinGap

\* right after a sweep has published its result the triple is the one used
TripleAtPublish ==
  [][(lastCall' = "finished" /\ nSweeps' = nSweeps + 1) =>
       /\ used'[1].method = selectionMethod'
       /\ used'[1].seed = clusterSeed'
       /\ used'[1].minGap = silMinGap']_vars

(***************************************************************************)
(* Claims about one invocation of kmeans (SpecKMeans)                      *)
(***************************************************************************)
\* C2: kmeans called with K greater than the number of rows (N >= 1,
\* maxIter >= 1) raises no error and returns K centroids and N labels.
C2_MoreClustersThanRows ==
  (Len(input) >= 1 /\ K > Len(input) /\ maxIter >= 1) =>
    /\ pc # "thrown"
    /\ pc = "done" => (Len(out[1].centroids) = K /\ Len(out[1].labels) = Len(input))

\* C17: a call of kmeans with K < 1 is rejected before any clustering step:
\* no run is initialised and no assign or update step is taken for it.
C17_DegenerateRejected == K < 1 => (labels = <<>> /\ centers = <<>> /\ it = 0)

\* what does hold: a call with K = 0 never returns a result; on a matrix with
\* rows it ends in a TypeError after the first assign step or in the inertia loop
DegenerateNeverReturns ==
  K < 1 => /\ pc # "done" /\ pc # "return" /\ out = null
           /\ (pc = "thrown" /\ Len(input) > 0) => Len(labels) = Len(input)

\* lab has one entry per row of M, each an index in 0..k-1 of a centroid of cen,
\* and the member counts of the k clusters sum to the number of rows
RECURSIVE CountSum(_, _, _)
CountSum(lab, c, n) == IF c = 0 THEN 0 ELSE Count(lab, c - 1, n) + CountSum(lab, c - 1, n)

LabelsInRange(M, lab, cen, k) ==
  /\ Len(lab) = Len(M)
  /\ \A i \in 1..Len(lab) : lab[i] \in 0..(k - 1) /\ (lab[i] + 1) \in 1..Len(cen)
  /\ CountSum(lab, k, Len(M)) = Len(M)

\* C6: on N rows with 1 <= K <= N, the labels of a run and of the result
\* returned are N indices in 0..K-1 of existing centroids, and the member
\* counts sum to N.
C6_LabelRange ==
  (1 <= K /\ K <= Len(input)) =>
    /\ pc \in {"loop", "update"} => LabelsInRange(input, labels, centers, K)
    /\ pc = "done" => LabelsInRange(input, out[1].labels, out[1].centroids, K)

C6_Witness ==
  /\ pc = "done" /\ K >= 2 /\ K <= Len(input)
  /\ \E i \in 1..Len(input) : out[1].labels[i] = K - 1

\* C7: a run that stopped because an assign step changed no label, before
\* maxIter was reached, has every row labelled with the lowest index of a
\* nearest final centroid.
C7_AssignmentOptimal ==
  \A j \in 1..Len(runs) :
    (~runs[j].changed /\ runs[j].it < maxIter) =>
      \A i \in 1..Len(input) :
        runs[j].labels[i] = Nearest(input[i], runs[j].centers, K, 0, 0, Infinity)

\* C8: after every update step a centroid whose cluster has no row has the
\* value it had before the step, and is not NaN.
C8_EmptyClusterStable ==
  (pc = "loop" /\ it > 0) =>
    \A c \in 1..Len(centers) :
      Count(labels, c - 1, Len(input)) = 0 =>
        (centers[c] = before[c] /\ centers[c].den # 0)

\* an update step has moved a centroid and left one without rows
C8_Witness ==
  /\ pc = "loop" /\ it > 0
  /\ \E c \in 1..Len(centers) : Count(labels, c - 1, Len(input)) = 0
  /\ \E c \in 1..Len(centers) : centers[c] # before[c]

\* the rows that carry the label c
Members(lab, c) == {i \in 1..Len(lab) : lab[i] = c}

RECURSIVE SumOver(_, _)
SumOver(S, d) ==
  IF S = {} THEN 0
  ELSE LET i == CHOOSE j \in S : TRUE IN input[i][d] + SumOver(S \ {i}, d)

\* every centroid with members is the mean of the rows of the members
MeansOfMembers(lab, cen) ==
  \A c \in 1..Len(cen) :
    LET S == Members(lab, c - 1)
    IN  S # {} =>
          /\ cen[c].den > 0
          /\ \A d \in 1..Len(cen[c].num) :
               cen[c].num[d] * Cardinality(S) = SumOver(S, d) * cen[c].den

\* C26: in every run that made at least one iteration, and in the result
\* kmeans returns, every centroid whose cluster has a row is the mean of the
\* rows that carry its label, whether the run stopped because no label
\* changed or because maxIter was reached.
C26_CentroidIsMean ==
  /\ \A j \in 1..Len(runs) :
       runs[j].it >= 1 => MeansOfMembers(runs[j].labels, runs[j].centers)
  /\ (pc = "done" /\ maxIter >= 1) => MeansOfMembers(out[1].labels, out[1].centroids)

\* a result whose best run made maxIter iterations with a label changed in
\* the last one, and a cluster of two rows with a mean that is not a row
C26_Witness ==
  /\ pc = "done" /\ maxIter >= 1
  /\ \E j \in 1..Len(runs) :
       /\ runs[j].changed /\ runs[j].it = maxIter
       /\ runs[j].labels = out[1].labels /\ runs[j].centers = out[1].centroids
  /\ \E c \in 1..Len(out[1].centroids) :
       /\ Cardinality(Members(out[1].labels, c - 1)) >= 2
       /\ out[1].centroids[c].den > 1

\* the rows of the matrix hold what they held when kmeans was called
RowsUnchanged ==
  \A i \in 1..Len(frame.mat) : heap[frame.mat[i]] = RowCopy(frame.M[i])

\* the references of the arrays returned
Returned == {frame.result[1].labels} \cup
              {frame.result[1].centroids[c] : c \in 1..Len(frame.result[1].centroids)}

\* C30: every row of the input matrix holds what it held at the call, during
\* kmeans, the hash and the silhouette and after any write of the caller to a
\* returned array; no returned array is a row of the matrix, and the returned
\* centroids are distinct arrays.
C30_MatrixReadOnly ==
  frame # null =>
    /\ RowsUnchanged
    /\ frame.result # null =>
         /\ \A i \in 1..Len(frame.mat) : frame.mat[i] \notin Returned
         /\ \A c, e \in 1..Len(frame.result[1].centroids) :
              frame.result[1].centroids[c] = frame.result[1].centroids[e] => c = e
         /\ frame.result[1].labels # frame.bestRefs[1].labels

\* the caller has overwritten a component of a returned centroid that no
\* update step replaced: it is still the copy made of a row
C30_Witness ==
  /\ frame # null /\ frame.result # null /\ frame.written
  /\ \E c \in 1..Len(frame.result[1].centroids) :
       /\ frame.result[1].centroids[c] <= Len(frame.mat) + frame.K
       /\ heap[frame.result[1].centroids[c]].num[1] = 7
  /\ frame.sil # null /\ frame.hash # null

\* the start whose run kmeans is to return: the lowest index of a lowest inertia
LowestStart ==
  CHOOSE j \in 1..Len(runs) :
    /\ \A i \in 1..Len(runs) : ~Less(runs[i].inertia, runs[j].inertia)
    /\ \A i \in 1..(j - 1) : Less(runs[j].inertia, runs[i].inertia)

\* C9: kmeans runs the core nInit times with the seeds seed + t * 101 and
\* returns the run of lowest inertia, of several the one of the lowest index.
C9_MultiStart ==
  /\ pc \in {"return", "done"} =>
       /\ Len(runs) = nInit
       /\ \A j \in 1..nInit : runs[j].seed = ToWord(seed + ((j - 1) * 101))
  /\ pc = "done" =>
       /\ out[1].labels = runs[LowestStart].labels
       /\ out[1].centroids = runs[LowestStart].centers
       /\ out[1].inertia = runs[LowestStart].inertia

\* a later start ties the lowest inertia with other labels, and is not returned
C9_Witness ==
  /\ pc = "done"
  /\ \E j \in 1..Len(runs) :
       /\ j > LowestStart
       /\ runs[j].inertia = runs[LowestStart].inertia
       /\ runs[j].labels # runs[LowestStart].labels
====
